---- MODULE Spec2Model ----
(***************************************************************************)
(* A model of the AST command-line calculator: the tokenizer               *)
(* (Lexicography.cpp), the recursive-descent parser (Parser.cpp), the      *)
(* node evaluation (NumberNode.h, VariableNode.h, UnaryOpNode.h,           *)
(* BinaryOpNode.h, FuncNode.h), the Calculator class (Calculator.cpp) and  *)
(* the read-evaluate loop of main (main.cpp).                              *)
(*                                                                         *)
(* Text is a sequence of one-character strings.  A long double is an       *)
(* exact rational <<"rat", n, d>> (d > 0, lowest terms) or, where the      *)
(* value is not a rational the model can carry (the seeded constants, the  *)
(* results of the transcendental functions), an uninterpreted real         *)
(* <<"real", term>>.                                                       *)
(***************************************************************************)
EXTENDS Integers, Sequences, FiniteSets, TLC

VARIABLES
    variables,        \* Calculator::variables      : name -> value
    varNodes,         \* Calculator::varNodes       : the names that own a VariableNode
    preservedValues,  \* Calculator::preservedValues: set of names
    input,            \* main: the line read last
    running,          \* main: FALSE once the loop was left by "exit"
    tokens,           \* main: tokens of the line read last (<<>> when tokenize threw)
    parsed,           \* main: what Parser::parse did on the line read last
    outcome,          \* main: what Calculator::evaluate did on the line read last
    cin,              \* main: the state of std::cin, "good", "eof" or "fail"
    parser,           \* a Parser object inside parse(): cursor, assignmentVar, call stack
    lastOp            \* the operation performed by the last step

vars == <<variables, varNodes, preservedValues, input, running, tokens, parsed, outcome,
          cin, parser, lastOp>>

----------------------------------------------------------------------------
(* Characters                                                              *)

Digits == {"0", "1", "2", "3", "4", "5", "6", "7", "8", "9"}

Letters ==
    {"a", "b", "c", "d", "e", "f", "g", "h", "i", "j", "k", "l", "m",
     "n", "o", "p", "q", "r", "s", "t", "u", "v", "w", "x", "y", "z",
     "A", "B", "C", "D", "E", "F", "G", "H", "I", "J", "K", "L", "M",
     "N", "O", "P", "Q", "R", "S", "T", "U", "V", "W", "X", "Y", "Z"}

Spaces == {" "}

isdigit(c) == c \in Digits
isalpha(c) == c \in Letters
isspace(c) == c \in Spaces

\* input[i] of a std::string, 0-based: the character, or the terminating
\* '\0' (written "NUL") at i = size().
CharAt(s, i) == IF i < Len(s) THEN s[i + 1] ELSE "NUL"

----------------------------------------------------------------------------
(* Tokens                                                                  *)

Token(type, value) == [type |-> type, value |-> value]

EndToken == Token("END", <<" ">>)

FunctionWords ==
    { <<"s","i","n">>, <<"c","o","s">>, <<"t","a","n">>,
      <<"a","s","i","n">>, <<"a","c","o","s">>, <<"a","t","a","n">>,
      <<"e","x","p">>, <<"l","o","g">>, <<"s","q","r","t">>,
      <<"l","o","g","t","e","n">>, <<"l","n">>, <<"a","b","s">>,
      <<"p","o","w">> }

PreserveWord == <<"p","r","e","s","e","r","v","e">>
RemoveWord == <<"r","e","m","o","v","e">>

\* The punctuation switch of tokenize: character -> token type.
PunctuationType ==
    [c \in {"+", "-", "*", "/", "^", "(", ")", "=", ",", "|"} |->
        CASE c = "+" -> "PLUS"
          [] c = "-" -> "MINUS"
          [] c = "*" -> "MULTIPLY"
          [] c = "/" -> "DIVIDE"
          [] c = "^" -> "POWER"
          [] c = "(" -> "LEFTPAREN"
          [] c = ")" -> "RIGHTPAREN"
          [] c = "=" -> "ASSIGN"
          [] c = "," -> "COMMA"
          [] c = "|" -> "ABS"]

\* The identifier classification of tokenize.
ClassifyWord(word) ==
    IF word \in FunctionWords THEN Token("FUNCTION", word)
    ELSE IF word = PreserveWord THEN Token("PRESERVE", word)
    ELSE IF word = RemoveWord THEN Token("REMOVE", word)
    ELSE Token("VARIABLE", word)

\* The inner while loops of tokenize: the index one past the maximal run
\* that starts at i.
RECURSIVE NumberRunEnd(_, _)
NumberRunEnd(s, i) ==
    IF isdigit(CharAt(s, i)) \/ CharAt(s, i) = "." THEN NumberRunEnd(s, i + 1) ELSE i

\* WordRunEnd that stops at '_'.
RECURSIVE WordRunEndNoUnderscore(_, _)
WordRunEndNoUnderscore(s, i) ==
    IF isalpha(CharAt(s, i)) \/ isdigit(CharAt(s, i))
    THEN WordRunEndNoUnderscore(s, i + 1) ELSE i

RECURSIVE WordRunEnd(_, _)
WordRunEnd(s, i) ==
    IF isalpha(CharAt(s, i)) \/ isdigit(CharAt(s, i)) \/ CharAt(s, i) = "_"
    THEN WordRunEnd(s, i + 1) ELSE i

\* s[i .. j-1], 0-based.
Slice(s, i, j) == SubSeq(s, i + 1, j)

LexOk(toks) == [ok |-> TRUE, tokens |-> toks, bad |-> "NUL"]
LexError(c) == [ok |-> FALSE, tokens |-> <<>>, bad |-> c]

\* The for loop of tokenize from index i on, acc the tokens emitted so far.
RECURSIVE TokenizeFrom(_, _, _)
TokenizeFrom(s, i, acc) ==
    IF i >= Len(s) THEN LexOk(Append(acc, EndToken))
    ELSE LET c == CharAt(s, i) IN
         IF isspace(c) THEN TokenizeFrom(s, i + 1, acc)
         ELSE IF isdigit(c) \/ c = "." THEN
             LET j == NumberRunEnd(s, i)
             IN  TokenizeFrom(s, j, Append(acc, Token("NUMBER", Slice(s, i, j))))
         ELSE IF isalpha(c) THEN
             LET j == WordRunEnd(s, i)
             IN  TokenizeFrom(s, j, Append(acc, ClassifyWord(Slice(s, i, j))))
         ELSE IF c \in DOMAIN PunctuationType THEN
             TokenizeFrom(s, i + 1, Append(acc, Token(PunctuationType[c], <<c>>)))
         ELSE LexError(c)

tokenize(s) == TokenizeFrom(s, 0, <<>>)

----------------------------------------------------------------------------
(* Numbers                                                                 *)

\* The largest numerator or denominator the model carries; an evaluation
\* that leaves this range is outside the model.
ValueCap == 20000

Abs(n) == IF n < 0 THEN -n ELSE n

RECURSIVE GCD(_, _)
GCD(a, b) == IF b = 0 THEN a ELSE GCD(b, a % b)

\* The rational n/d (d # 0) in lowest terms with a positive denominator.
Rat(n, d) ==
    LET g == GCD(Abs(n), Abs(d))
        s == IF d < 0 THEN -1 ELSE 1
    IN  <<"rat", (s * n) \div g, Abs(d) \div g>>

Int2Val(n) == <<"rat", n, 1>>
Real(term) == <<"real", term>>
NoValue == <<"none">>

IsRat(v) == v[1] = "rat"
Num(v) == v[2]
Den(v) == v[3]
InRange(v) == IsRat(v) => (Abs(Num(v)) <= ValueCap /\ Den(v) <= ValueCap)

IsZero(v) == Num(v) = 0
IsNeg(v) == Num(v) < 0
IsInteger(v) == Den(v) = 1
\* static_cast<int>(x) and floor(x) agree on x >= 0: truncation.
Trunc(v) == Num(v) \div Den(v)

\* What an evaluation does: returns a value, throws, or leaves the model.
Ok(v) == [st |-> "ok", v |-> v, e |-> "none"]
Throw(msg) == [st |-> "error", v |-> NoValue, e |-> msg]
OutOfModel == [st |-> "range", v |-> NoValue, e |-> "none"]

Checked(v) == IF InRange(v) THEN Ok(v) ELSE OutOfModel

DigitValue ==
    [c \in Digits |->
        CASE c = "0" -> 0 [] c = "1" -> 1 [] c = "2" -> 2 [] c = "3" -> 3
          [] c = "4" -> 4 [] c = "5" -> 5 [] c = "6" -> 6 [] c = "7" -> 7
          [] c = "8" -> 8 [] c = "9" -> 9]

RECURSIVE DigitRunEnd(_, _)
DigitRunEnd(s, i) == IF isdigit(CharAt(s, i)) THEN DigitRunEnd(s, i + 1) ELSE i

RECURSIVE Pow10(_)
Pow10(k) == IF k = 0 THEN 1 ELSE 10 * Pow10(k - 1)

\* The decimal number written by the digits s[i .. j-1].
RECURSIVE DigitsValue(_, _, _)
DigitsValue(s, i, j) ==
    IF j <= i THEN 0 ELSE 10 * DigitsValue(s, i, j - 1) + DigitValue[CharAt(s, j - 1)]

\* Digits the model converts; a longer literal is outside the model.
MaxDigits == 4

\* std::stod on the text of a NUMBER token: it converts the longest prefix
\* that is a decimal number (digits, at most one '.', at least one digit)
\* and ignores what follows; with no such prefix it throws invalid_argument.
stod(text) ==
    LET intEnd == DigitRunEnd(text, 0)
        hasDot == CharAt(text, intEnd) = "."
        fracEnd == IF hasDot THEN DigitRunEnd(text, intEnd + 1) ELSE intEnd
        nFrac == IF hasDot THEN fracEnd - (intEnd + 1) ELSE 0
    IN  IF intEnd + nFrac = 0 THEN Throw("stod")
        ELSE IF intEnd + nFrac > MaxDigits THEN OutOfModel
        ELSE Checked(Rat(DigitsValue(text, 0, intEnd) * Pow10(nFrac)
                           + DigitsValue(text, intEnd + 1, intEnd + 1 + nFrac),
                         Pow10(nFrac)))

----------------------------------------------------------------------------
(* Expression nodes and their evaluate()                                   *)

NumberNode(v) == <<"Number", v>>
VariableNode(name) == <<"Variable", name>>
UnaryNode(kind, child) == <<kind, child>>
BinaryNode(kind, left, right) == <<kind, left, right>>

UnaryKinds ==
    {"Negate", "Abs", "Factorial", "Sin", "Cos", "Tan", "ArcSin", "ArcCos",
     "ArcTan", "Exp", "Ln", "LogTen", "Sqrt"}
BinaryKinds == {"Add", "Subtract", "Multiply", "Divide", "Power", "Log"}

\* Error messages of the runtime_errors the nodes throw.
NotRecognized == "is not recognized as a variable, function, or operation"
DivisionByZero == "division by zero"
NegativeBase == "negative base with non-integer exponent"
NegativeFactorial == "cannot take factorial of negative number"
LogNonPositive == "logarithm of non-positive value"
LogBaseOne == "logarithm base of 1"
SqrtNegative == "square root of negative value"

\* a + b, a - b, a * b on long doubles.
PlusVal(a, b) ==
    IF IsRat(a) /\ IsRat(b)
    THEN Checked(Rat(Num(a) * Den(b) + Num(b) * Den(a), Den(a) * Den(b)))
    ELSE Ok(Real(<<"+", a, b>>))

MinusVal(a, b) ==
    IF IsRat(a) /\ IsRat(b)
    THEN Checked(Rat(Num(a) * Den(b) - Num(b) * Den(a), Den(a) * Den(b)))
    ELSE Ok(Real(<<"-", a, b>>))

TimesVal(a, b) ==
    IF IsRat(a) /\ IsRat(b)
    THEN Checked(Rat(Num(a) * Num(b), Den(a) * Den(b)))
    ELSE Ok(Real(<<"*", a, b>>))

\* QuotVal that multiplies.
QuotValTimes(a, b) ==
    IF IsRat(a) /\ IsRat(b)
    THEN Checked(Rat(Num(a) * Num(b), Den(a) * Den(b)))
    ELSE Ok(Real(<<"*", a, b>>))

\* a / b for b # 0.
QuotVal(a, b) ==
    IF IsRat(a) /\ IsRat(b)
    THEN Checked(Rat(Num(a) * Den(b), Den(a) * Num(b)))
    ELSE Ok(Real(<<"/", a, b>>))

\* The longest loop of an evaluation the model follows.
MaxLoop == 16

\* acc * b^k for an integer k >= 0, by repeated multiplication; leaves the
\* model as soon as a partial product does.
RECURSIVE IntPower(_, _, _)
IntPower(b, k, acc) ==
    IF k = 0 THEN Ok(acc)
    ELSE LET r == TimesVal(acc, b)
         IN  IF r.st = "ok" THEN IntPower(b, k - 1, r.v) ELSE r

\* std::pow(a, b) where the check of PowerNode passed.
PowVal(a, b) ==
    IF IsRat(a) /\ IsRat(b) /\ IsInteger(b)
    THEN IF Abs(Num(b)) > MaxLoop THEN OutOfModel
         ELSE IF Num(b) >= 0 THEN IntPower(a, Num(b), Int2Val(1))
         ELSE IF IsZero(a) THEN OutOfModel
         ELSE LET r == IntPower(a, -Num(b), Int2Val(1))
              IN  IF r.st = "ok" THEN QuotVal(Int2Val(1), r.v) ELSE r
    ELSE Ok(Real(<<"pow", a, b>>))

\* FactorialLoop that stops one factor early.
RECURSIVE FactorialLoopShort(_, _, _)
FactorialLoopShort(i, n, result) ==
    IF i >= n THEN Ok(result)
    ELSE LET r == TimesVal(result, Int2Val(i))
         IN  IF r.st = "ok" THEN FactorialLoopShort(i + 1, n, r.v) ELSE r

\* The for loop of FactorialNode::evaluate: result *= i for i = i .. n.
RECURSIVE FactorialLoop(_, _, _)
FactorialLoop(i, n, result) ==
    IF i > n THEN Ok(result)
    ELSE LET r == TimesVal(result, Int2Val(i))
         IN  IF r.st = "ok" THEN FactorialLoop(i + 1, n, r.v) ELSE r

\* evaluate() of a one-child node on the value a of its child: the set of
\* its outcomes.  AbsNode calls abs unqualified: where only ::abs(int) is in
\* scope the operand is truncated to int first, where the <cmath> overloads
\* are it is not; both builds are kept.
UnaryValues(kind, a) ==
    CASE kind = "Negate" ->
           {IF IsRat(a) THEN Ok(Rat(-Num(a), Den(a))) ELSE Ok(Real(<<"neg", a>>))}
      [] kind = "Abs" ->
           IF IsRat(a)
           THEN {Ok(Rat(Abs(Num(a)), Den(a))), Ok(Int2Val(Abs(Num(a)) \div Den(a)))}
           ELSE {Ok(Real(<<"abs", a>>)), Ok(Real(<<"abs(int)", a>>))}
      [] kind = "Factorial" ->
           {IF ~IsRat(a) THEN OutOfModel
            ELSE IF IsNeg(a) THEN Throw(NegativeFactorial)
            ELSE IF Trunc(a) > MaxLoop THEN OutOfModel
            ELSE FactorialLoop(1, Trunc(a), Int2Val(1))}
      [] kind \in {"Ln", "LogTen"} ->
           {IF ~IsRat(a) THEN OutOfModel
            ELSE IF IsNeg(a) \/ IsZero(a) THEN Throw(LogNonPositive)
            ELSE Ok(Real(<<kind, a>>))}
      [] kind = "Sqrt" ->
           {IF ~IsRat(a) THEN OutOfModel
            ELSE IF IsNeg(a) THEN Throw(SqrtNegative)
            ELSE Ok(Real(<<kind, a>>))}
      [] OTHER -> {Ok(Real(<<kind, a>>))}

\* An outcome of a child that ends the evaluation of its parent.
Stops(o) == o.st # "ok"

\* The outcomes evaluate() of a node can have on an environment.  It is a
\* set because C++ leaves the order in which the two operands of +, - and *
\* are evaluated open: when both throw, either exception can be the one
\* that escapes.
RECURSIVE EvalSet(_, _)
EvalSet(node, env) ==
    LET kind == node[1] IN
    CASE kind = "Number" -> {Ok(node[2])}
      [] kind = "Variable" ->
           IF node[2] \in DOMAIN env THEN {Ok(env[node[2]])} ELSE {Throw(NotRecognized)}
      [] kind \in UnaryKinds ->
           UNION { IF Stops(a) THEN {a} ELSE UnaryValues(kind, a.v)
                   : a \in EvalSet(node[2], env) }
      [] kind \in {"Add", "Subtract", "Multiply"} ->
           UNION { UNION { IF Stops(a) /\ Stops(b) THEN {a, b}
                           ELSE IF Stops(a) THEN {a}
                           ELSE IF Stops(b) THEN {b}
                           ELSE { CASE kind = "Add" -> PlusVal(a.v, b.v)
                                    [] kind = "Subtract" -> MinusVal(a.v, b.v)
                                    [] kind = "Multiply" -> TimesVal(a.v, b.v) }
                           : b \in EvalSet(node[3], env) }
                   : a \in EvalSet(node[2], env) }
      [] kind = "Divide" ->
           \* the denominator is evaluated and tested before the numerator
           UNION { IF Stops(d) THEN {d}
                   ELSE IF ~IsRat(d.v) THEN {OutOfModel}
                   ELSE IF IsZero(d.v) THEN {Throw(DivisionByZero)}
                   ELSE { IF Stops(n) THEN n ELSE QuotVal(n.v, d.v)
                          : n \in EvalSet(node[2], env) }
                   : d \in EvalSet(node[3], env) }
      [] kind = "Power" ->
           \* base < 0 && exponent != floor(exponent): the base comes first
           UNION { IF Stops(a) THEN {a}
                   ELSE { IF Stops(b) THEN b
                          ELSE IF ~IsRat(a.v) THEN OutOfModel
                          ELSE IF IsNeg(a.v) /\ ~IsRat(b.v) THEN OutOfModel
                          ELSE IF IsNeg(a.v) /\ ~IsInteger(b.v) THEN Throw(NegativeBase)
                          ELSE PowVal(a.v, b.v)
                          : b \in EvalSet(node[3], env) }
                   : a \in EvalSet(node[2], env) }
      [] kind = "Log" ->
           \* node[2] is val, node[3] is base; the base is evaluated first
           UNION { IF Stops(b) THEN {b}
                   ELSE IF ~IsRat(b.v) THEN {OutOfModel}
                   ELSE IF b.v = Int2Val(1) THEN {Throw(LogBaseOne)}
                   ELSE IF IsNeg(b.v) \/ IsZero(b.v) THEN {Throw(LogNonPositive)}
                   ELSE { IF Stops(v) THEN v
                          ELSE IF ~IsRat(v.v) THEN OutOfModel
                          ELSE IF IsNeg(v.v) \/ IsZero(v.v) THEN Throw(LogNonPositive)
                          ELSE Ok(Real(<<"/", Real(<<"Ln", v.v>>), Real(<<"Ln", b.v>>)>>))
                          : v \in EvalSet(node[2], env) }
                   : b \in EvalSet(node[3], env) }

----------------------------------------------------------------------------
(* Parser                                                                  *)
(* The parser object is its token vector toks, the cursor currIndex        *)
(* (0-based, written i) and assignmentVar (written av).  A parsing         *)
(* function returns the node it built with the cursor and assignmentVar it *)
(* leaves behind, or the exception it threw.                               *)

NoNode == <<"None">>
NoTarget == <<>>

Parsed(node, i, av) == [ok |-> TRUE, node |-> node, i |-> i, av |-> av, err |-> "none"]
ParseThrow(msg, i, av) == [ok |-> FALSE, node |-> NoNode, i |-> i, av |-> av, err |-> msg]

\* A literal the model does not convert (see stod).
LiteralOutOfModel == "literal outside the model"

BadAssignment == "use [variable] = [expression] for assignment"
ExpectedAbs == "expected closing | for absolute value expression"
ExpectedLeftParen == "expected '(' after function name"
ExpectedComma == "expected ',' between log arguments"
ExpectedRightParenArgs == "expected ')' after function arguments"
ExpectedRightParenArg == "expected ')' after function argument"
ExpectedRightParen == "expected ')' after expression"
UnexpectedElement == "unexpected element in expression"
InvalidLiteral == "stod"

\* The Parser object outside parse(): frames is the stack of the parsing
\* functions that were entered and have not returned.
NoParser == [currIndex |-> 0, assignmentVar |-> NoTarget, frames |-> <<>>, thrown |-> "none"]

\* Parser::prev
prev(toks, i) == IF i > 0 THEN i - 1 ELSE i

\* next that leaves the cursor where it is.
nextStuck(toks, i) == i

\* next that goes back as prev does.
nextBackwards(toks, i) == prev(toks, i)

\* Parser::curr, Parser::next, Parser::checkType
curr(toks, i) == toks[i + 1]
next(toks, i) == IF i < Len(toks) - 1 THEN i + 1 ELSE i
checkType(toks, i, type) == curr(toks, i).type = type

\* Parser::isAssignment
isAssignment(toks) == \E k \in 1..Len(toks) : toks[k].type = "ASSIGN"

\* clone with the two children of a binary node exchanged.
RECURSIVE cloneSwapped(_)
cloneSwapped(node) ==
    CASE node[1] = "Number" -> NumberNode(node[2])
      [] node[1] = "Variable" -> VariableNode(node[2])
      [] node[1] \in UnaryKinds -> UnaryNode(node[1], cloneSwapped(node[2]))
      [] node[1] \in BinaryKinds ->
           BinaryNode(node[1], cloneSwapped(node[3]), cloneSwapped(node[2]))

\* Node::clone: every node class builds a new node of its own class from
\* its value, its name, or the clones of its children in their order.
RECURSIVE clone(_)
clone(node) ==
    CASE node[1] = "Number" -> NumberNode(node[2])
      [] node[1] = "Variable" -> VariableNode(node[2])
      [] node[1] \in UnaryKinds -> UnaryNode(node[1], clone(node[2]))
      [] node[1] \in BinaryKinds ->
           BinaryNode(node[1], clone(node[2]), clone(node[3]))

\* The function names parsePrimary turns into a one-argument node.
OneArgumentNode ==
    [w \in { <<"s","i","n">>, <<"c","o","s">>, <<"t","a","n">>,
             <<"a","s","i","n">>, <<"a","c","o","s">>, <<"a","t","a","n">>,
             <<"e","x","p">>, <<"l","n">>, <<"l","o","g","1","0">>,
             <<"s","q","r","t">>, <<"a","b","s">>, <<"f","a","c","t">> } |->
        CASE w = <<"s","i","n">> -> "Sin"
          [] w = <<"c","o","s">> -> "Cos"
          [] w = <<"t","a","n">> -> "Tan"
          [] w = <<"a","s","i","n">> -> "ArcSin"
          [] w = <<"a","c","o","s">> -> "ArcCos"
          [] w = <<"a","t","a","n">> -> "ArcTan"
          [] w = <<"e","x","p">> -> "Exp"
          [] w = <<"l","n">> -> "Ln"
          [] w = <<"l","o","g","1","0">> -> "LogTen"
          [] w = <<"s","q","r","t">> -> "Sqrt"
          [] w = <<"a","b","s">> -> "Abs"
          [] w = <<"f","a","c","t">> -> "Factorial"]

\* The function names parsePrimary parses with two arguments.
TwoArgumentNode ==
    [w \in { <<"l","o","g">>, <<"p","o","w">> } |->
        IF w = <<"l","o","g">> THEN "Log" ELSE "Power"]

RECURSIVE parseExpression(_, _, _)
RECURSIVE parseAssignment(_, _, _)
RECURSIVE parseAddition(_, _, _)
RECURSIVE AdditionLoop(_, _, _, _)
RECURSIVE parseMultiplication(_, _, _)
RECURSIVE MultiplicationLoop(_, _, _, _)
RECURSIVE parsePower(_, _, _)
RECURSIVE parseUnary(_, _, _)
RECURSIVE UnaryFactorialLoop(_, _, _, _)
RECURSIVE parsePrimary(_, _, _)

parseExpression(toks, i, av) == parseAssignment(toks, i, av)

\* parseAssignment that parses on when the shape is not Variable Assign.
parseAssignmentLenient(toks, i, av) ==
    IF /\ isAssignment(toks)
       /\ i + 1 < Len(toks)
       /\ toks[i + 1].type = "VARIABLE"
       /\ toks[i + 2].type = "ASSIGN"
    THEN parseAddition(toks, i + 2, toks[i + 1].value)
    ELSE parseAddition(toks, i, av)

parseAssignment(toks, i, av) ==
    IF isAssignment(toks)
    THEN IF /\ i + 1 < Len(toks)
            /\ toks[i + 1].type = "VARIABLE"
            /\ toks[i + 2].type = "ASSIGN"
         THEN parseAddition(toks, i + 2, toks[i + 1].value)
         ELSE ParseThrow(BadAssignment, i, av)
    ELSE parseAddition(toks, i, av)

\* parseAddition once left = parseMultiplication() returned or threw.
AdditionFrom(toks, left) ==
    IF ~left.ok THEN left ELSE AdditionLoop(toks, left.node, left.i, left.av)

\* AdditionStep with the operands of the new node exchanged.
AdditionStepSwapped(toks, left, op, right) ==
    IF ~right.ok THEN right
    ELSE AdditionLoop(toks,
                      BinaryNode(IF op = "PLUS" THEN "Add" ELSE "Subtract", right.node, left),
                      right.i, right.av)

\* The body of the while loop of parseAddition once right =
\* parseMultiplication() returned or threw.
AdditionStep(toks, left, op, right) ==
    IF ~right.ok THEN right
    ELSE AdditionLoop(toks,
                      BinaryNode(IF op = "PLUS" THEN "Add" ELSE "Subtract", left, right.node),
                      right.i, right.av)

\* The while loop of parseAddition, left the tree built so far.
AdditionLoop(toks, left, i, av) ==
    IF checkType(toks, i, "PLUS") \/ checkType(toks, i, "MINUS")
    THEN AdditionStep(toks, left, curr(toks, i).type,
                      parseMultiplication(toks, next(toks, i), av))
    ELSE Parsed(left, i, av)

parseAddition(toks, i, av) == AdditionFrom(toks, parseMultiplication(toks, i, av))

\* parseMultiplication once left = parsePower() returned or threw.
MultiplicationFrom(toks, left) ==
    IF ~left.ok THEN left ELSE MultiplicationLoop(toks, left.node, left.i, left.av)

\* The body of the while loop of parseMultiplication once right =
\* parsePower() returned or threw.
MultiplicationStep(toks, left, op, right) ==
    IF ~right.ok THEN right
    ELSE MultiplicationLoop(toks,
                            BinaryNode(IF op = "MULTIPLY" THEN "Multiply" ELSE "Divide",
                                       left, right.node),
                            right.i, right.av)

\* The while loop of parseMultiplication, left the tree built so far.
MultiplicationLoop(toks, left, i, av) ==
    IF checkType(toks, i, "MULTIPLY") \/ checkType(toks, i, "DIVIDE")
    THEN MultiplicationStep(toks, left, curr(toks, i).type,
                            parsePower(toks, next(toks, i), av))
    ELSE Parsed(left, i, av)

parseMultiplication(toks, i, av) == MultiplicationFrom(toks, parsePower(toks, i, av))

\* The return of parsePower inside its if, once right was parsed.
PowerOf(left, right) ==
    IF ~right.ok THEN right
    ELSE Parsed(BinaryNode("Power", left.node, right.node), right.i, right.av)

\* parsePower once left = parseUnary() returned or threw.
PowerFrom(toks, left) ==
    IF ~left.ok THEN left
    ELSE IF checkType(toks, left.i, "POWER")
    THEN PowerOf(left, parseUnary(toks, next(toks, left.i), left.av))
    ELSE left

parsePower(toks, i, av) == PowerFrom(toks, parseUnary(toks, i, av))

\* The while loop of parseUnary over the postfix factorials.
UnaryFactorialLoop(toks, node, i, av) ==
    IF checkType(toks, i, "FACTORIAL")
    THEN UnaryFactorialLoop(toks, UnaryNode("Factorial", node), next(toks, i), av)
    ELSE Parsed(node, i, av)

\* make_unique<NegateNode>(parseUnary())
Negated(child) ==
    IF ~child.ok THEN child
    ELSE Parsed(UnaryNode("Negate", child.node), child.i, child.av)

\* parseUnary once node was set by either branch of its if.
UnaryFrom(toks, first) ==
    IF ~first.ok THEN first
    ELSE UnaryFactorialLoop(toks, first.node, first.i, first.av)

\* parseUnary whose minus takes a primary, not a unary, as its operand.
parseUnaryLoose(toks, i, av) ==
    UnaryFrom(toks, IF checkType(toks, i, "MINUS")
                    THEN Negated(parsePrimary(toks, next(toks, i), av))
                    ELSE parsePrimary(toks, i, av))

parseUnary(toks, i, av) ==
    UnaryFrom(toks, IF checkType(toks, i, "MINUS")
                    THEN Negated(parseUnary(toks, next(toks, i), av))
                    ELSE parsePrimary(toks, i, av))

\* The NUMBER branch of parsePrimary once stod returned or threw.
NumberFrom(toks, i, av, value) ==
    IF value.st = "error" THEN ParseThrow(InvalidLiteral, i, av)
    ELSE IF value.st = "range" THEN ParseThrow(LiteralOutOfModel, i, av)
    ELSE Parsed(NumberNode(value.v), next(toks, i), av)

\* The end of the |...|, (...) and one-argument call branches of
\* parsePrimary once the inner expression was parsed: the closing token is
\* required and skipped, then the node is made (kind "Group" for
\* parentheses, which make none; kind "Unknown" for a function name the
\* dispatch does not know).
CloseGroup(toks, expr, closer, message, kind) ==
    IF ~expr.ok THEN expr
    ELSE IF ~checkType(toks, expr.i, closer) THEN ParseThrow(message, expr.i, expr.av)
    ELSE IF kind = "Unknown" THEN ParseThrow(NotRecognized, next(toks, expr.i), expr.av)
    ELSE Parsed(IF kind = "Group" THEN expr.node ELSE UnaryNode(kind, expr.node),
                next(toks, expr.i), expr.av)

\* CloseTwoArguments with the two arguments exchanged in the node.
CloseTwoArgumentsSwapped(toks, funcName, arg1, arg2) ==
    IF ~arg2.ok THEN arg2
    ELSE IF ~checkType(toks, arg2.i, "RIGHTPAREN")
    THEN ParseThrow(ExpectedRightParenArgs, arg2.i, arg2.av)
    ELSE Parsed(BinaryNode(TwoArgumentNode[funcName], arg2.node, arg1.node),
                next(toks, arg2.i), arg2.av)

\* The end of the log / pow branch once the second argument was parsed.
CloseTwoArguments(toks, funcName, arg1, arg2) ==
    IF ~arg2.ok THEN arg2
    ELSE IF ~checkType(toks, arg2.i, "RIGHTPAREN")
    THEN ParseThrow(ExpectedRightParenArgs, arg2.i, arg2.av)
    ELSE Parsed(BinaryNode(TwoArgumentNode[funcName], arg1.node, arg2.node),
                next(toks, arg2.i), arg2.av)

\* The log / pow branch once the first argument was parsed.
SecondArgument(toks, funcName, arg1) ==
    IF ~arg1.ok THEN arg1
    ELSE IF ~checkType(toks, arg1.i, "COMMA") THEN ParseThrow(ExpectedComma, arg1.i, arg1.av)
    ELSE CloseTwoArguments(toks, funcName, arg1,
                           parseExpression(toks, next(toks, arg1.i), arg1.av))

\* The FUNCTION branch of parsePrimary, i1 the cursor after the name.
FunctionCall(toks, funcName, i1, av) ==
    IF ~checkType(toks, i1, "LEFTPAREN") THEN ParseThrow(ExpectedLeftParen, i1, av)
    ELSE IF funcName \in DOMAIN TwoArgumentNode
    THEN SecondArgument(toks, funcName, parseExpression(toks, next(toks, i1), av))
    ELSE CloseGroup(toks, parseExpression(toks, next(toks, i1), av),
                    "RIGHTPAREN", ExpectedRightParenArg,
                    IF funcName \in DOMAIN OneArgumentNode
                    THEN OneArgumentNode[funcName] ELSE "Unknown")

parsePrimary(toks, i, av) ==
    CASE checkType(toks, i, "NUMBER") ->
           NumberFrom(toks, i, av, stod(curr(toks, i).value))
      [] checkType(toks, i, "VARIABLE") ->
           Parsed(VariableNode(curr(toks, i).value), next(toks, i), av)
      [] checkType(toks, i, "ABS") ->
           CloseGroup(toks, parseExpression(toks, next(toks, i), av),
                      "ABS", ExpectedAbs, "Abs")
      [] checkType(toks, i, "FUNCTION") ->
           FunctionCall(toks, curr(toks, i).value, next(toks, i), av)
      [] checkType(toks, i, "LEFTPAREN") ->
           CloseGroup(toks, parseExpression(toks, next(toks, i), av),
                      "RIGHTPAREN", ExpectedRightParen, "Group")
      [] OTHER -> ParseThrow(UnexpectedElement, i, av)

\* Parser(tokens).parse(): the cursor starts at 0, assignmentVar empty.
parse(toks) == parseExpression(toks, 0, NoTarget)

InvalidPreserve ==
    "invalid preserve variable syntax! Use preserve [variable] to add a variable to preserved variables"
InvalidRemove ==
    "invalid remove variable syntax! Use remove [variable] to remove a variable from preserved variables"

\* What parsePreserve or parseRemove did: the value it returned (ret), the
\* assignmentVar it leaves, the exception it threw.
CommandResult(ret, av, err) == [ret |-> ret, av |-> av, err |-> err]

\* parseCommand without the exception: a malformed command is "no command".
parseCommandSilent(toks, av, keyword, message) ==
    IF Len(toks) = 3 /\ toks[1].type = keyword /\ toks[2].type = "VARIABLE"
    THEN CommandResult(TRUE, toks[2].value, "none")
    ELSE CommandResult(FALSE, av, "none")

\* The body parsePreserve and parseRemove share, keyword the token type
\* they look for.
parseCommand(toks, av, keyword, message) ==
    IF Len(toks) = 3 /\ toks[1].type = keyword /\ toks[2].type = "VARIABLE"
    THEN CommandResult(TRUE, toks[2].value, "none")
    ELSE IF \E k \in 1..Len(toks) : toks[k].type = keyword
         THEN CommandResult(FALSE, av, message)
         ELSE CommandResult(FALSE, av, "none")

\* Parser::parsePreserve, Parser::parseRemove
parsePreserve(toks, av) == parseCommand(toks, av, "PRESERVE", InvalidPreserve)
parseRemove(toks, av) == parseCommand(toks, av, "REMOVE", InvalidRemove)

----------------------------------------------------------------------------
(* Calculator                                                              *)

PiName == <<"p","i">>
EName == <<"e">>
Deg2RadName == <<"d","e","g","2","r","a","d">>
Rad2DegName == <<"r","a","d","2","d","e","g">>
PredefinedNames == {PiName, EName, Deg2RadName, Rad2DegName}

\* The values the constructor (and main) assign to the predefined names.
PredefinedValue ==
    [n \in PredefinedNames |->
        CASE n = PiName -> Real(<<"3.141592653589793">>)
          [] n = EName -> Real(<<"2.718281828459045">>)
          [] n = Deg2RadName -> Real(<<"3.141592653589793 / 180">>)
          [] n = Rad2DegName -> Real(<<"180 / 3.141592653589793">>)]

\* m[name] = value of a std::map.
Put(m, name, value) ==
    [k \in DOMAIN m \cup {name} |-> IF k = name THEN value ELSE m[k]]

EmptyMap == [k \in {} |-> NoValue]

\* Calculator::assign on the two maps.
AssignVariables(vs, name, value) == Put(vs, name, value)
AssignVarNodes(vn, name) == Put(vn, name, VariableNode(name))

\* PreservedVars without the test of the preserved set.
PreservedVarsAll(vs, preserved) == vs

\* The snapshot loop of Calculator::clear.
PreservedVars(vs, preserved) ==
    [name \in preserved \cap DOMAIN vs |-> vs[name]]

\* ClearVariables that keeps nothing.
ClearVariablesEmpty(vs, preserved) == [name \in {} |-> NoValue]

\* Calculator::clear on the two maps: both are emptied, then every
\* snapshotted pair is assigned again.
ClearVariables(vs, preserved) == PreservedVars(vs, preserved)
ClearVarNodes(vs, preserved) ==
    [name \in DOMAIN PreservedVars(vs, preserved) |-> VariableNode(name)]

Op(op, name, ok) == [op |-> op, name |-> name, ok |-> ok]

NotTokenized == <<>>
NotParsed == ParseThrow("not parsed", 0, NoTarget)
NotEvaluated == [st |-> "none", v |-> NoValue, e |-> "none"]

\* The state Calculator::Calculator() leaves: the member initialiser of
\* preservedValues, four assigns, four addPreservedValue.
CalculatorInit ==
    /\ variables = PredefinedValue
    /\ varNodes = [n \in PredefinedNames |-> VariableNode(n)]
    /\ preservedValues = PredefinedNames
    /\ input = <<>>
    /\ running = TRUE
    /\ tokens = NotTokenized
    /\ parsed = NotParsed
    /\ outcome = NotEvaluated
    /\ cin = "good"
    /\ parser = NoParser
    /\ lastOp = Op("Calculator", NoTarget, TRUE)

UnchangedMain == UNCHANGED <<input, running, tokens, parsed, outcome, cin, parser>>
UnchangedCalculator == UNCHANGED <<variables, varNodes, preservedValues>>

\* Calculator::assign
assign(name, value) ==
    /\ variables' = AssignVariables(variables, name, value)
    /\ varNodes' = AssignVarNodes(varNodes, name)
    /\ UNCHANGED preservedValues
    /\ lastOp' = Op("assign", name, TRUE)
    /\ UnchangedMain

\* setVariable that creates the node as assign does.
setVariableAssigning(name, value) ==
    /\ variables' = Put(variables, name, value)
    /\ varNodes' = AssignVarNodes(varNodes, name)
    /\ UNCHANGED preservedValues
    /\ lastOp' = Op("setVariable", name, TRUE)
    /\ UnchangedMain

\* Calculator::setVariable
setVariable(name, value) ==
    /\ variables' = Put(variables, name, value)
    /\ UNCHANGED <<varNodes, preservedValues>>
    /\ lastOp' = Op("setVariable", name, TRUE)
    /\ UnchangedMain

\* clear that also forgets which names are preserved.
clearForgetting ==
    /\ variables' = ClearVariables(variables, preservedValues)
    /\ varNodes' = ClearVarNodes(variables, preservedValues)
    /\ preservedValues' = {}
    /\ lastOp' = Op("clear", NoTarget, TRUE)
    /\ UnchangedMain

\* Calculator::clear
clear ==
    /\ variables' = ClearVariables(variables, preservedValues)
    /\ varNodes' = ClearVarNodes(variables, preservedValues)
    /\ UNCHANGED preservedValues
    /\ lastOp' = Op("clear", NoTarget, TRUE)
    /\ UnchangedMain

\* addPreservedValue without the test of the value mapping.
addPreservedValueUnchecked(name) ==
    /\ preservedValues' = preservedValues \cup {name}
    /\ UNCHANGED <<variables, varNodes>>
    /\ lastOp' = Op("addPreservedValue", name, TRUE)
    /\ UnchangedMain

\* Calculator::addPreservedValue: throws when name has no value.
addPreservedValue(name) ==
    /\ preservedValues' = IF name \in DOMAIN variables
                          THEN preservedValues \cup {name}
                          ELSE preservedValues
    /\ UNCHANGED <<variables, varNodes>>
    /\ lastOp' = Op("addPreservedValue", name, name \in DOMAIN variables)
    /\ UnchangedMain

\* removePreservedValue that erases the variable as well.
removePreservedValueErasing(name) ==
    /\ preservedValues' = preservedValues \ {name}
    /\ variables' = [k \in DOMAIN variables \ {name} |-> variables[k]]
    /\ varNodes' = [k \in DOMAIN varNodes \ {name} |-> varNodes[k]]
    /\ lastOp' = Op("removePreservedValue", name, TRUE)
    /\ UnchangedMain

\* Calculator::removePreservedValue
removePreservedValue(name) ==
    /\ preservedValues' = preservedValues \ {name}
    /\ UNCHANGED <<variables, varNodes>>
    /\ lastOp' = Op("removePreservedValue", name, TRUE)
    /\ UnchangedMain

----------------------------------------------------------------------------
(* main                                                                    *)

ExitLine == <<"e","x","i","t">>
HelpLine == <<"h","e","l","p">>
VarsLine == <<"v","a","r","s">>
ClearLine == <<"c","l","e","a","r">>
CommandLines == {ExitLine, HelpLine, VarsLine, ClearLine}

\* The function names listed under FUNCTIONS in HELP_MESSAGE.
DocumentedFunctions ==
    { <<"s","i","n">>, <<"c","o","s">>, <<"t","a","n">>,
      <<"a","s","i","n">>, <<"a","c","o","s">>, <<"a","t","a","n">>,
      <<"e","x","p">>, <<"l","n">>, <<"l","o","g","1","0">>, <<"l","o","g">>,
      <<"s","q","r","t">>, <<"a","b","s">> }

\* The state at the top of the while loop of main for the first time: the
\* constructor ran, then main assigned the four predefined names again.
MainInit == CalculatorInit

\* AssignReached with calc.assign placed before calc.evaluate returned.
AssignReachedEarly(lex, p, o) ==
    lex.ok /\ p.ok /\ isAssignment(lex.tokens)

\* calc.assign(varName, result) is reached: nothing was thrown before it
\* and the line is an assignment.
AssignReached(lex, p, o) ==
    lex.ok /\ p.ok /\ o.st = "ok" /\ isAssignment(lex.tokens)

\* The try block ran to its end: nothing was thrown.
LineSucceeded(lex, p, o) == lex.ok /\ p.ok /\ o.st = "ok"

\* The line stays inside what the model computes.
InModel(p, outs) ==
    /\ p.err # LiteralOutOfModel
    /\ \A o \in outs : o.st # "range"

\* getline(cin, input) leaving line in input.  On a good stream it reads a
\* line and its newline, or the last line, which no newline ends, and sets
\* eofbit, or finds nothing left, erases input and sets failbit.  On a
\* stream that is not good its sentry fails and input is left as it was.
getline(line) ==
    \/ cin = "good" /\ cin' = "good"
    \/ cin = "good" /\ line # <<>> /\ cin' = "eof"
    \/ cin = "good" /\ line = <<>> /\ cin' = "fail"
    \/ cin # "good" /\ line = input /\ cin' = "fail"

\* TryBlock without the catch: an exception ends the loop.
TryBlockUncaught(line, lex, p, outs) ==
    /\ InModel(p, outs)
    /\ \E o \in outs :
          /\ input' = line
          /\ tokens' = lex.tokens
          /\ parsed' = p
          /\ outcome' = o
          /\ variables' = IF AssignReached(lex, p, o)
                          THEN AssignVariables(variables, p.av, o.v)
                          ELSE variables
          /\ varNodes' = IF AssignReached(lex, p, o)
                         THEN AssignVarNodes(varNodes, p.av)
                         ELSE varNodes
          /\ lastOp' = Op("line", p.av, LineSucceeded(lex, p, o))
          /\ running' = LineSucceeded(lex, p, o)
    /\ UNCHANGED <<preservedValues, parser>>

\* The try block of main from calc.evaluate on: lex what tokenize did,
\* p what parse did, outs the outcomes evaluate can have.
TryBlock(line, lex, p, outs) ==
    /\ InModel(p, outs)
    /\ \E o \in outs :
          /\ input' = line
          /\ tokens' = lex.tokens
          /\ parsed' = p
          /\ outcome' = o
          /\ variables' = IF AssignReached(lex, p, o)
                          THEN AssignVariables(variables, p.av, o.v)
                          ELSE variables
          /\ varNodes' = IF AssignReached(lex, p, o)
                         THEN AssignVarNodes(varNodes, p.av)
                         ELSE varNodes
          /\ lastOp' = Op("line", p.av, LineSucceeded(lex, p, o))
    /\ UNCHANGED <<preservedValues, running, parser>>

\* Parser parser(tokens); parser.parse(): not reached when tokenize threw.
ParseLexed(lex) == IF lex.ok THEN parse(lex.tokens) ELSE NotParsed

\* calc.evaluate(move(expression)): not reached when parse threw.
EvaluateParsed(p, env) == IF p.ok THEN EvalSet(p.node, env) ELSE {NotEvaluated}

TryParsed(line, lex, p) == TryBlock(line, lex, p, EvaluateParsed(p, variables))
TryLexed(line, lex) == TryParsed(line, lex, ParseLexed(lex))

\* One iteration of the loop of main on a line that is no command.
ProcessLine(line) ==
    /\ running
    /\ line # <<>>
    /\ line \notin CommandLines
    /\ TryLexed(line, tokenize(line))
    /\ getline(line)

\* if (input.empty()) continue;
ReadEmpty ==
    /\ running
    /\ input' = <<>>
    /\ lastOp' = Op("empty", NoTarget, TRUE)
    /\ getline(<<>>)
    /\ UNCHANGED <<variables, varNodes, preservedValues, running, tokens, parsed, outcome, parser>>

\* if (input == "exit") break;
ReadExit ==
    /\ running
    /\ input' = ExitLine
    /\ running' = FALSE
    /\ lastOp' = Op("exit", NoTarget, TRUE)
    /\ getline(ExitLine)
    /\ UNCHANGED <<variables, varNodes, preservedValues, tokens, parsed, outcome, parser>>

\* if (input == "help") ... ; if (input == "vars") ... : output only
ReadHelpOrVars(line) ==
    /\ running
    /\ line \in {HelpLine, VarsLine}
    /\ input' = line
    /\ lastOp' = Op(IF line = HelpLine THEN "help" ELSE "vars", NoTarget, TRUE)
    /\ getline(line)
    /\ UNCHANGED <<variables, varNodes, preservedValues, running, tokens, parsed, outcome, parser>>

\* if (input == "clear") { calc.clear(); ... continue; }
ReadClear ==
    /\ running
    /\ input' = ClearLine
    /\ variables' = ClearVariables(variables, preservedValues)
    /\ varNodes' = ClearVarNodes(variables, preservedValues)
    /\ lastOp' = Op("clear", NoTarget, TRUE)
    /\ getline(ClearLine)
    /\ UNCHANGED <<preservedValues, running, tokens, parsed, outcome, parser>>

----------------------------------------------------------------------------
(* The interface of Parser under a client                                  *)
(*                                                                         *)
(* tokens is the vector the parser was constructed with; parsed holds the  *)
(* cursor and assignmentVar of the parser and what parse() did; lastOp     *)
(* names the call made last, with the name it returned.                    *)

UnchangedEnvironment ==
    UNCHANGED <<variables, varNodes, preservedValues, input, running, cin, parser>>

\* Parser::Parser(tokens)
NewParser(toks) ==
    /\ tokens' = toks
    /\ parsed' = NotParsed
    /\ outcome' = NotEvaluated
    /\ lastOp' = Op("Parser", NoTarget, TRUE)
    /\ UnchangedEnvironment

\* parser.parse() once the functions above computed it.
ParseReturned(p) ==
    /\ p.err # LiteralOutOfModel
    /\ parsed' = p
    /\ lastOp' = Op("parse", p.av, p.ok)
    /\ UNCHANGED <<tokens, outcome>>
    /\ UnchangedEnvironment

\* parser.parse(), called once on a parser
CallParse ==
    /\ tokens # NotTokenized
    /\ parsed.err = NotParsed.err
    /\ ParseReturned(parseExpression(tokens, parsed.i, parsed.av))

\* parsePreserve or parseRemove returned r.
CommandReturned(op, r) ==
    /\ parsed' = [parsed EXCEPT !.av = r.av]
    /\ lastOp' = Op(op, IF r.ret THEN r.av ELSE NoTarget, r.err = "none")
    /\ UNCHANGED <<tokens, outcome>>
    /\ UnchangedEnvironment

\* parser.parsePreserve()
CallParsePreserve ==
    /\ tokens # NotTokenized
    /\ CommandReturned("parsePreserve", parsePreserve(tokens, parsed.av))

\* parser.parseRemove()
CallParseRemove ==
    /\ tokens # NotTokenized
    /\ CommandReturned("parseRemove", parseRemove(tokens, parsed.av))

\* calc.evaluate(expression) returned or threw one of outs.
EvaluateReturned(outs) ==
    /\ \A o \in outs : o.st # "range"
    /\ \E o \in outs :
          /\ outcome' = o
          /\ lastOp' = Op("evaluate", NoTarget, o.st = "ok")
    /\ UNCHANGED <<tokens, parsed>>
    /\ UnchangedEnvironment

\* Calculator::evaluate on the tree parse() returned
CallEvaluate ==
    /\ parsed.ok
    /\ outcome = NotEvaluated
    /\ EvaluateReturned(EvalSet(parsed.node, variables))

\* The client replaces the tree parse returned by its clone.
CallClone ==
    /\ parsed.ok
    /\ outcome = NotEvaluated
    /\ lastOp.op # "clone"
    /\ parsed' = [parsed EXCEPT !.node = clone(parsed.node)]
    /\ lastOp' = Op("clone", NoTarget, TRUE)
    /\ UNCHANGED <<tokens, outcome>>
    /\ UnchangedEnvironment

\* A client of the Calculator class holds one tree, kept in parsed, and the
\* result of its last evaluation, kept in outcome.
VariableNotFound == "variable not found"

Held(node) == Parsed(node, 0, NoTarget)

\* getVariable that hands out a node although the name has none.
getVariableAlways(name) ==
    /\ parsed' = Held(VariableNode(name))
    /\ outcome' = NotEvaluated
    /\ lastOp' = Op("getVariable", name, TRUE)
    /\ UNCHANGED <<variables, varNodes, preservedValues, input, running, tokens, cin, parser>>

\* Calculator::getVariable: the clone of the name's node, or a throw.
getVariable(name) ==
    /\ parsed' = IF name \in DOMAIN varNodes
                 THEN Held(clone(varNodes[name]))
                 ELSE ParseThrow(VariableNotFound, 0, NoTarget)
    /\ outcome' = NotEvaluated
    /\ lastOp' = Op("getVariable", name, name \in DOMAIN varNodes)
    /\ UNCHANGED <<variables, varNodes, preservedValues, input, running, tokens, cin, parser>>

\* make_unique<VariableNode>(name)
NewVariableNode(name) ==
    /\ parsed' = Held(VariableNode(name))
    /\ outcome' = NotEvaluated
    /\ lastOp' = Op("VariableNode", name, TRUE)
    /\ UNCHANGED <<variables, varNodes, preservedValues, input, running, tokens, cin, parser>>

\* make_unique<MultiplyNode>(move(held), make_unique<NumberNode>(3.0))
NewMultiplyNode ==
    /\ parsed.ok
    /\ parsed.node[1] = "Variable"
    /\ parsed' = Held(BinaryNode("Multiply", parsed.node, NumberNode(Int2Val(3))))
    /\ outcome' = NotEvaluated
    /\ lastOp' = Op("MultiplyNode", NoTarget, TRUE)
    /\ UNCHANGED <<variables, varNodes, preservedValues, input, running, tokens, cin, parser>>

\* evaluate that stores its result in x.
evaluateStoring ==
    /\ parsed.ok
    /\ \A o \in EvalSet(parsed.node, variables) : o.st # "range"
    /\ \E o \in EvalSet(parsed.node, variables) :
          /\ outcome' = o
          /\ lastOp' = Op("evaluate", NoTarget, o.st = "ok")
          /\ variables' = IF o.st = "ok" THEN Put(variables, <<"x">>, o.v) ELSE variables
    /\ UNCHANGED <<varNodes, preservedValues, input, running, tokens, parsed, cin, parser>>

\* Calculator::evaluate on the held tree
evaluate ==
    /\ parsed.ok
    /\ EvaluateReturned(EvalSet(parsed.node, variables))

----------------------------------------------------------------------------
(* Parser::parse step by step                                              *)
(*                                                                         *)
(* parser.frames is the call stack inside parse(): one frame per parsing   *)
(* function that was entered and has not returned, the callee last.  A     *)
(* frame names its function fn, the point at the function stands at, the   *)
(* funcName parsePrimary read, and the cursor the function was entered     *)
(* with.  A step runs the function on top from                             *)
(* its point to its next call, to its return or to its throw; an exception *)
(* leaves parse(), which catches nothing.                                  *)

Frame(fn, at, name, entered) == [fn |-> fn, at |-> at, name |-> name, entered |-> entered]

Top == parser.frames[Len(parser.frames)]
Callers == SubSeq(parser.frames, 1, Len(parser.frames) - 1)

Standing(fn, at) == parser.frames # <<>> /\ Top.fn = fn /\ Top.at = at

Descent(i, av, frames, thrown) ==
    /\ parser' = [currIndex |-> i, assignmentVar |-> av, frames |-> frames, thrown |-> thrown]
    /\ lastOp' = Op("descent", av, thrown = "none")
    /\ UNCHANGED <<variables, varNodes, preservedValues, input, running, cin,
                   tokens, parsed, outcome>>

\* The function on top moves to the point at, remembers name, and calls callee.
CallNamed(i, av, at, name, callee) ==
    Descent(i, av,
            Callers \o << Frame(Top.fn, at, name, Top.entered),
                          Frame(callee, "entry", NoTarget, i) >>,
            "none")

CallFrom(i, at, callee) == CallNamed(i, parser.assignmentVar, at, Top.name, callee)

\* The function on top stays in its loop.
Repeat(i) == Descent(i, parser.assignmentVar, parser.frames, "none")

\* The function on top returns.
ReturnAt(i) == Descent(i, parser.assignmentVar, Callers, "none")

\* The function on top throws.
Raise(i, msg) == Descent(i, parser.assignmentVar, <<>>, msg)

\* Parser parser(tokens); parser.parse();
EnterParse(toks) ==
    /\ tokens = NotTokenized
    /\ parser = NoParser
    /\ tokens' = toks
    /\ parser' = [NoParser EXCEPT !.frames = << Frame("parse", "entry", NoTarget, 0) >>]
    /\ lastOp' = Op("Parser", NoTarget, TRUE)
    /\ UNCHANGED <<variables, varNodes, preservedValues, input, running, cin, parsed, outcome>>

\* Parser::parse and Parser::parseExpression: return callee();
StepParse ==
    \/ Standing("parse", "entry") /\ CallFrom(parser.currIndex, "return", "parseExpression")
    \/ Standing("parse", "return") /\ ReturnAt(parser.currIndex)

StepExpression ==
    \/ /\ Standing("parseExpression", "entry")
       /\ CallFrom(parser.currIndex, "return", "parseAssignment")
    \/ Standing("parseExpression", "return") /\ ReturnAt(parser.currIndex)

\* Parser::parseAssignment
StepAssignment ==
    LET i == parser.currIndex IN
    \/ /\ Standing("parseAssignment", "entry")
       /\ IF isAssignment(tokens)
          THEN IF /\ i + 1 < Len(tokens)
                  /\ tokens[i + 1].type = "VARIABLE"
                  /\ tokens[i + 2].type = "ASSIGN"
               THEN CallNamed(i + 2, tokens[i + 1].value, "return", NoTarget, "parseAddition")
               ELSE Raise(i, BadAssignment)
          ELSE CallFrom(i, "return", "parseAddition")
    \/ Standing("parseAssignment", "return") /\ ReturnAt(i)

\* Parser::parseAddition
StepAddition ==
    LET i == parser.currIndex IN
    \/ Standing("parseAddition", "entry") /\ CallFrom(i, "loop", "parseMultiplication")
    \/ /\ Standing("parseAddition", "loop")
       /\ IF checkType(tokens, i, "PLUS") \/ checkType(tokens, i, "MINUS")
          THEN CallFrom(next(tokens, i), "loop", "parseMultiplication")
          ELSE ReturnAt(i)

\* Parser::parseMultiplication
StepMultiplication ==
    LET i == parser.currIndex IN
    \/ Standing("parseMultiplication", "entry") /\ CallFrom(i, "loop", "parsePower")
    \/ /\ Standing("parseMultiplication", "loop")
       /\ IF checkType(tokens, i, "MULTIPLY") \/ checkType(tokens, i, "DIVIDE")
          THEN CallFrom(next(tokens, i), "loop", "parsePower")
          ELSE ReturnAt(i)

\* Parser::parsePower
StepPower ==
    LET i == parser.currIndex IN
    \/ Standing("parsePower", "entry") /\ CallFrom(i, "left", "parseUnary")
    \/ /\ Standing("parsePower", "left")
       /\ IF checkType(tokens, i, "POWER")
          THEN CallFrom(next(tokens, i), "return", "parseUnary")
          ELSE ReturnAt(i)
    \/ Standing("parsePower", "return") /\ ReturnAt(i)

\* Parser::parseUnary
StepUnary ==
    LET i == parser.currIndex IN
    \/ /\ Standing("parseUnary", "entry")
       /\ IF checkType(tokens, i, "MINUS")
          THEN CallFrom(next(tokens, i), "loop", "parseUnary")
          ELSE CallFrom(i, "loop", "parsePrimary")
    \/ /\ Standing("parseUnary", "loop")
       /\ IF checkType(tokens, i, "FACTORIAL")
          THEN Repeat(next(tokens, i))
          ELSE ReturnAt(i)

\* Parser::parsePrimary up to its call of parseExpression
StepPrimary ==
    LET i == parser.currIndex
        i1 == next(tokens, i)
    IN  /\ Standing("parsePrimary", "entry")
        /\ CASE checkType(tokens, i, "NUMBER") ->
                  IF stod(curr(tokens, i).value).st = "error"
                  THEN Raise(i, InvalidLiteral)
                  ELSE ReturnAt(i1)
             [] checkType(tokens, i, "VARIABLE") -> ReturnAt(i1)
             [] checkType(tokens, i, "ABS") -> CallFrom(i1, "abs", "parseExpression")
             [] checkType(tokens, i, "FUNCTION") ->
                  IF ~checkType(tokens, i1, "LEFTPAREN") THEN Raise(i1, ExpectedLeftParen)
                  ELSE CallNamed(next(tokens, i1), parser.assignmentVar,
                                 IF curr(tokens, i).value \in DOMAIN TwoArgumentNode
                                 THEN "comma" ELSE "argument",
                                 curr(tokens, i).value, "parseExpression")
             [] checkType(tokens, i, "LEFTPAREN") -> CallFrom(i1, "group", "parseExpression")
             [] OTHER -> Raise(i, UnexpectedElement)

\* Parser::parsePrimary after the parseExpression of a group or of |...|
StepClose ==
    LET i == parser.currIndex IN
    \/ /\ Standing("parsePrimary", "abs")
       /\ IF ~checkType(tokens, i, "ABS") THEN Raise(i, ExpectedAbs)
          ELSE ReturnAt(next(tokens, i))
    \/ /\ Standing("parsePrimary", "group")
       /\ IF ~checkType(tokens, i, "RIGHTPAREN") THEN Raise(i, ExpectedRightParen)
          ELSE ReturnAt(next(tokens, i))

\* Parser::parsePrimary after the parseExpression of a function argument
StepArgument ==
    LET i == parser.currIndex IN
    \/ /\ Standing("parsePrimary", "comma")
       /\ IF ~checkType(tokens, i, "COMMA") THEN Raise(i, ExpectedComma)
          ELSE CallFrom(next(tokens, i), "arguments", "parseExpression")
    \/ /\ Standing("parsePrimary", "arguments")
       /\ IF ~checkType(tokens, i, "RIGHTPAREN") THEN Raise(i, ExpectedRightParenArgs)
          ELSE ReturnAt(next(tokens, i))
    \/ /\ Standing("parsePrimary", "argument")
       /\ IF ~checkType(tokens, i, "RIGHTPAREN") THEN Raise(i, ExpectedRightParenArg)
          ELSE IF Top.name \in DOMAIN OneArgumentNode THEN ReturnAt(next(tokens, i))
          ELSE Raise(next(tokens, i), NotRecognized)

\* The step of the function on top of the stack.
Descend ==
    \/ StepParse
    \/ StepExpression
    \/ StepAssignment
    \/ StepAddition
    \/ StepMultiplication
    \/ StepPower
    \/ StepUnary
    \/ StepPrimary
    \/ StepClose
    \/ StepArgument

----------------------------------------------------------------------------
(* Input lines                                                             *)

\* Operators in a line of the first-line specification.
MaxOperators == 2
\* Characters in a numeric literal line.
MaxLiteralLength == 5
\* The values the interface specification assigns are 1 .. MaxApiValue.
MaxApiValue == 2

XName == <<"x">>
YName == <<"y">>

Atoms == { <<"2">>, <<"3">>, <<"4">>, XName }
Operators == { <<"+">>, <<"-">>, <<"*">>, <<"/">>, <<"^">> }

\* atom (operator atom)^k
RECURSIVE Chains(_)
Chains(k) ==
    IF k = 0 THEN Atoms
    ELSE { c \o op \o a : c \in Chains(k - 1), op \in Operators, a \in Atoms }

ChainsUpTo(k) == UNION { Chains(j) : j \in 0..k }

\* The same with blanks around the operators.
SpacedChains ==
    { a \o <<" ">> \o op \o <<" ">> \o b : a \in Atoms, op \in Operators, b \in Atoms }

\* Every name a call can be written with: the names the tokenizer knows,
\* the names the parser knows.
CallNames == FunctionWords \cup DOMAIN OneArgumentNode \cup DOMAIN TwoArgumentNode

Brackets == { << <<"(">>, <<")">> >>, << <<"|">>, <<"|">> >> }
Calls == { << name \o <<"(">>, <<")">> >> : name \in CallNames }

Wrap(w, c) == w[1] \o c \o w[2]

\* What stands inside a group: shorter chains over fewer atoms.
GroupAtoms == { <<"2">>, <<"3">> }

RECURSIVE GroupChains(_)
GroupChains(k) ==
    IF k = 0 THEN GroupAtoms
    ELSE { c \o op \o a : c \in GroupChains(k - 1), op \in Operators, a \in GroupAtoms }

Inner == UNION { GroupChains(j) : j \in 0..(MaxOperators - 1) }

GroupLines == { Wrap(w, c) : w \in Brackets \cup Calls, c \in Inner }

TwoArgumentLines ==
    { name \o <<"(">> \o a \o <<",">> \o b \o <<")">> :
        name \in CallNames, a \in Atoms, b \in Atoms }

GroupOperandLines ==
    LET groups == { Wrap(w, c) : w \in Brackets, c \in Inner }
    IN  { g \o op \o a : g \in groups, op \in Operators, a \in Atoms }
        \cup { a \o op \o g : g \in groups, op \in Operators, a \in Atoms }

PrefixLines == { <<"-">> \o c : c \in ChainsUpTo(1) } \cup { <<"-", "-">> \o a : a \in Atoms }

PostfixLines == { a \o <<"!">> : a \in Atoms \cup { <<"5">> } }

RECURSIVE Strings(_, _)
Strings(alphabet, k) ==
    IF k = 0 THEN { <<>> }
    ELSE { Append(t, c) : t \in Strings(alphabet, k - 1), c \in alphabet }

LiteralLines == UNION { Strings({"1", "2", "."}, k) : k \in 1..MaxLiteralLength }

OtherLines ==
    { <<"2", "$">>, <<"2", " ", "3">>, <<"(", "2", ")", ")">>, <<"2", "=", "x">>,
      <<"x", "_", "1">>, <<"_", "x">>, <<"2", "_">>, <<"x", " ", "_">>, <<"2", "x", "_">> }

\* log(v,b) over arguments on both sides of every test of LogNode.
LogArguments == { <<"0">>, <<"1">>, <<"2">>, <<"8">>, <<"0", "-", "2">> }
LogLines ==
    { <<"l", "o", "g", "(">> \o v \o <<",">> \o b \o <<")">> :
        v \in LogArguments, b \in LogArguments }

ExpressionLines ==
    ChainsUpTo(MaxOperators) \cup SpacedChains \cup GroupLines \cup TwoArgumentLines
    \cup GroupOperandLines \cup PrefixLines \cup PostfixLines \cup LiteralLines
    \cup OtherLines \cup LogLines

AssignmentLines == { XName \o <<"=">> \o l : l \in ExpressionLines }

\* The lines of the first-line specification.
FirstLines == ExpressionLines \cup AssignmentLines

\* The lines of a session: x is assigned constants only and y is computed
\* from x, so the values of a session stay finitely many.
SessionExpressions ==
    { <<"1">>, <<"2">>, XName, YName, <<"z">>,
      <<"x", "+", "1">>, <<"2", "*", "x">>, <<"1", "/", "0">>, <<"1", "/", "x">>,
      <<"(", "0", "-", "4", ")", "!">>, <<"2", "$">>, <<"2", "+">>, <<".">>,
      <<"s", "q", "r", "t", "(", "0", "-", "x", ")">>,
      <<"l", "n", "(", "0", ")">>, <<"|", "0", "-", "x", "|">> }

SessionLines ==
    SessionExpressions
    \cup { XName \o <<"=">> \o l :
             l \in { <<"1">>, <<"2">>, <<"z">>, <<"1", "/", "0">>, <<"2", "$">>,
                     <<"l", "n", "(", "0", ")">>, <<"(", "2", ")">> } }
    \cup { YName \o <<"=">> \o l : l \in SessionExpressions }

\* The lines whose tokens the parser specification parses.
ParserLines ==
    ChainsUpTo(1)
    \cup { w \o t : w \in {PreserveWord, RemoveWord},
                    t \in { <<>>, <<" ", "x">>, <<" ", "2">>, <<" ", "x", " ", "y">>,
                            <<" ", "x", "+", "2">>, <<" ">> \o PreserveWord,
                            <<" ">> \o RemoveWord, <<" ", "x", "=", "2">> } }
    \cup { <<"x", " ">> \o w : w \in {PreserveWord, RemoveWord} }
    \cup { <<"3", "=", "x">>, <<"x", "+", "1", "=", "2">>, <<"x", "=", "2">>,
           <<"x", "=", "5", "=", "6">>, <<"=", "2">>, <<"x", "=">>,
           <<"x", "=", "|", "y", "=", "3", "|">>, <<"x", "=", "(", "y", "=", "3", ")">>,
           <<"x", "=", "s", "i", "n", "(", "y", "=", "3", ")">>,
           <<"x", "=", "y", "=", "3">>, <<"(", "x", "=", "3", ")">>,
           <<"|", "x", "=", "3", "|">>, <<"x", "=", "|", "2", "|">>,
           <<"2", " ", "3">>, <<"(", "1", ")", ")">>, <<"2", "^", "3", "^", "2">>,
           <<"2", ")">>, <<"2", "+">>, <<"(", "2">>, <<"-", "3">> }

\* Token vectors with FACTORIAL tokens, which tokenize never builds.
FactorialSequences ==
    LET n(d) == Token("NUMBER", <<d>>)
        f == Token("FACTORIAL", <<"!">>)
        m == Token("MINUS", <<"-">>)
        p == Token("PLUS", <<"+">>)
        l == Token("LEFTPAREN", <<"(">>)
        r == Token("RIGHTPAREN", <<")">>)
        e == EndToken
    IN  { <<n("5"), f, e>>, <<m, n("5"), f, e>>, <<n("5"), f, f, e>>,
          <<n("3"), f, e>>, <<m, n("3"), f, e>>, <<n("3"), f, f, e>>,
          <<m, m, n("3"), f, e>>, <<n("2"), p, n("3"), f, e>>,
          <<n("2"), f, p, n("3"), e>>, <<f, e>>, <<m, f, e>>,
          <<Token("VARIABLE", XName), f, e>>,
          <<n("0"), f, e>>, <<n("1"), f, e>>, <<n("2"), f, e>>, <<n("4"), f, e>>,
          <<n("6"), f, e>>, <<n("7"), f, e>>,
          <<Token("NUMBER", <<"0", ".", "5">>), f, e>>,
          <<Token("NUMBER", <<"1", ".", "5">>), f, e>>,
          <<Token("NUMBER", <<"2", ".", "5">>), f, e>>,
          <<Token("NUMBER", <<"3", ".", "9">>), f, e>>,
          <<l, n("0"), m, n("4"), r, f, e>>, <<l, n("0"), m, n("1"), r, f, e>>,
          <<l, n("0"), m, Token("NUMBER", <<"0", ".", "5">>), r, f, e>>,
          <<l, n("2"), m, n("2"), r, f, e>> }

\* The token vectors a client constructs a Parser with.
TokenSequences == { tokenize(l).tokens : l \in ParserLines } \cup FactorialSequences

\* The lines whose tokens the step-by-step specification parses.
DescentLines ==
    ParserLines \cup TwoArgumentLines \cup PrefixLines \cup LogLines \cup OtherLines
    \cup { Wrap(w, <<"2", "+", "x">>) : w \in Brackets \cup Calls }
    \cup { <<"2", "+", "3", "*", "4">>, <<"2", "*", "3", "+", "4">>,
           <<"2", "-", "3", "-", "4">>, <<"2", "/", "3", "/", "4">>,
           <<"(", "2", "+", "3", ")", "*", "4">>, <<"2", "*", "(", "3", "+", "4", ")">>,
           <<"2", "^", "(", "3", "^", "2", ")">>, <<"x", "=", "-", "|", "2", "-", "3", "|">>,
           <<>>, <<".">>, <<"1", ".", "2", ".">>, <<"-", "(", "-", "x", ")">>,
           <<"|", "-", "|", "x", "|", "|">>, <<"(", "(", "(", "2", ")", ")", ")">>,
           <<"s", "i", "n", "(", "l", "o", "g", "(", "x", ",", "2", ")", ")">>,
           <<"l", "o", "g", "(", "x", ")">>, <<"s", "i", "n", "x">>,
           <<"s", "i", "n", "(", "x", ",", "2", ")">> }

DescentSequences ==
    { tokenize(l).tokens : l \in { d \in DescentLines : tokenize(d).ok } }
    \cup FactorialSequences

ApiNames == { PiName, XName, YName }
ApiValues == { Int2Val(k) : k \in 1..MaxApiValue }

----------------------------------------------------------------------------
(* Specifications                                                          *)

\* A session of main: any sequence of lines.
Init == MainInit

Next ==
    \/ \E line \in SessionLines : ProcessLine(line)
    \/ ReadEmpty
    \/ ReadExit
    \/ \E line \in {HelpLine, VarsLine} : ReadHelpOrVars(line)
    \/ ReadClear

Spec == Init /\ [][Next]_vars

\* The first line of a session: tokenize, parse and evaluate as main runs
\* them on every line of FirstLines from the state main starts in.
\* An iteration of the loop on a stream that is no longer good, for an
\* input that is empty or a command.
AtEndOfFile ==
    /\ cin # "good"
    /\ \/ ReadEmpty
       \/ ReadClear
       \/ ReadHelpOrVars(input)

\* The loop of main is while (true) in the one thread of the program: an
\* iteration that can run does run.  Nothing is assumed of the lines that
\* a good stream delivers.
SpecLoop == Init /\ [][Next]_vars /\ WF_vars(AtEndOfFile)

FirstLine == input = <<>> /\ \E line \in FirstLines : ProcessLine(line)

NextFirstLine == FirstLine

SpecFirstLine == Init /\ [][NextFirstLine]_vars

\* The interface of Calculator under any client.
NextCalculator ==
    \/ \E name \in ApiNames, value \in ApiValues : assign(name, value)
    \/ \E name \in ApiNames, value \in ApiValues : setVariable(name, value)
    \/ clear
    \/ \E name \in ApiNames : addPreservedValue(name)
    \/ \E name \in ApiNames : removePreservedValue(name)

SpecCalculator == CalculatorInit /\ [][NextCalculator]_vars

\* The interface of Calculator under a client that also holds a tree: the
\* node getVariable returned or one it built, which it has evaluated.
ClientNames == { PiName, XName }

NextClient ==
    \/ \E name \in ClientNames, value \in ApiValues : assign(name, value)
    \/ \E name \in ClientNames, value \in ApiValues : setVariable(name, value)
    \/ clear
    \/ \E name \in ClientNames : addPreservedValue(name)
    \/ \E name \in ClientNames : removePreservedValue(name)
    \/ \E name \in ClientNames : getVariable(name)
    \/ \E name \in ClientNames : NewVariableNode(name)
    \/ NewMultiplyNode
    \/ evaluate

SpecClient == CalculatorInit /\ [][NextClient]_vars

\* The interface of Parser, and Calculator::evaluate on what it returns,
\* under any client.
NextParser ==
    \/ \E toks \in TokenSequences : NewParser(toks)
    \/ CallParse
    \/ CallParsePreserve
    \/ CallParseRemove
    \/ CallEvaluate
    \/ CallClone

SpecParser == CalculatorInit /\ [][NextParser]_vars

NextDescent ==
    \/ \E toks \in DescentSequences : EnterParse(toks)
    \/ Descend

\* parse() runs in the one thread of the program: the function on top of
\* the stack takes its step.
SpecDescent == CalculatorInit /\ [][NextDescent]_vars /\ WF_vars(Descend)

----------------------------------------------------------------------------
(* Properties                                                              *)

\* The last step ran the try block of main on a line that tokenize accepted.
LineLexed == lastOp.op = "line" /\ tokens # NotTokenized

IsAtom(tok) == tok.type \in {"NUMBER", "VARIABLE"}

\* The leaf a NUMBER or VARIABLE token stands for.
AtomNode(tok) ==
    IF tok.type = "NUMBER" THEN NumberNode(stod(tok.value).v) ELSE VariableNode(tok.value)

\* A token sequence that is a complete expression on its own: it holds no
\* Assign, and parse accepts it and consumes it up to the End token.
WellFormed(toks) ==
    /\ ~isAssignment(toks)
    /\ parse(toks).ok
    /\ parse(toks).i = Len(toks) - 1

\* The tokens after the first two.
Remainder(toks) == SubSeq(toks, 3, Len(toks))

StartsWithAssignment(toks) ==
    Len(toks) >= 3 /\ toks[1].type = "VARIABLE" /\ toks[2].type = "ASSIGN"

\* C1: every token sequence Variable(n), Assign, E with E a well-formed
\* expression (groups, |...| and calls included) parses to the tree of E
\* with assignment target n.
C1_AssignmentParsesRemainder ==
    (LineLexed /\ StartsWithAssignment(tokens) /\ WellFormed(Remainder(tokens)))
        => /\ parsed.ok
           /\ parsed.node = parse(Remainder(tokens)).node
           /\ parsed.av = tokens[1].value

\* C2: a ^ b ^ c parses to Power(a, Power(b, c)) with both ^ consumed, and
\* the line 2^3^2 evaluates to 512.
C2_PowerRightAssociative ==
    /\ (LineLexed /\ Len(tokens) = 6 /\ IsAtom(tokens[1]) /\ IsAtom(tokens[3])
          /\ IsAtom(tokens[5]) /\ tokens[2].type = "POWER" /\ tokens[4].type = "POWER")
         => /\ parsed.ok
            /\ parsed.node = BinaryNode("Power", AtomNode(tokens[1]),
                                 BinaryNode("Power", AtomNode(tokens[3]), AtomNode(tokens[5])))
            /\ parsed.i = 5
    /\ (lastOp.op = "line" /\ input = <<"2", "^", "3", "^", "2">>)
         => outcome = Ok(Int2Val(512))

CalculatorFrame == <<variables, varNodes, preservedValues>>

\* C3: a line on which tokenize, parse or evaluate fails leaves the value
\* mapping, the reference-node mapping and the preserved set as they were;
\* a line changes them only when its right-hand side evaluated.
C3_FailedLineLeavesEnvironment ==
    [][ lastOp'.op = "line" =>
          /\ (~lastOp'.ok => CalculatorFrame' = CalculatorFrame)
          /\ (CalculatorFrame' # CalculatorFrame =>
                tokens' # NotTokenized /\ parsed'.ok /\ outcome'.st = "ok") ]_vars

\* An assignment line whose right-hand side failed in evaluate.
C3_Witness ==
    /\ lastOp = Op("line", XName, FALSE)
    /\ parsed.ok
    /\ outcome.st = "error"
    /\ outcome.e = DivisionByZero

\* C4: clear() leaves the value mapping with exactly the names that had a
\* value and were preserved, each with the value it had; every other name
\* is gone from both mappings; the preserved set is unchanged.
C4_ClearKeepsExactlyPreserved ==
    [][ lastOp'.op = "clear" =>
          /\ DOMAIN variables' = DOMAIN variables \cap preservedValues
          /\ \A n \in DOMAIN variables' : variables'[n] = variables[n]
          /\ \A n \in (DOMAIN variables \cup DOMAIN varNodes) \ preservedValues :
                n \notin DOMAIN variables' /\ n \notin DOMAIN varNodes'
          /\ preservedValues' = preservedValues ]_vars

\* After a clear a preserved user variable is kept and an unpreserved
\* predefined name is gone.
C4_Witness ==
    /\ lastOp.op = "clear"
    /\ XName \in DOMAIN variables
    /\ variables[XName] = Int2Val(2)
    /\ PiName \notin DOMAIN variables

\* C5: mark_preserved(x) on an assigned x, then clear(): x keeps its value.
\* unmark_preserved(x) removes nothing by itself; the next clear() does.
C5_PreserveThenRemove ==
    [][ /\ (lastOp.op = "addPreservedValue" /\ lastOp.ok /\ lastOp'.op = "clear")
            => /\ lastOp.name \in DOMAIN variables'
               /\ variables'[lastOp.name] = variables[lastOp.name]
        /\ (lastOp'.op = "removePreservedValue")
            => variables' = variables /\ varNodes' = varNodes
        /\ (lastOp.op = "removePreservedValue" /\ lastOp'.op = "clear")
            => lastOp.name \notin DOMAIN variables' ]_vars

\* After a clear: pi, unmarked before it, is gone, and x, marked before
\* it, is still assigned.
C5_Witness ==
    /\ lastOp.op = "clear"
    /\ PiName \notin preservedValues
    /\ PiName \notin DOMAIN variables
    /\ XName \in preservedValues
    /\ XName \in DOMAIN variables

\* C6: right after any clear() the four predefined names are assigned, and
\* a user variable that is not preserved fails with a name error.
C6_ClearKeepsPredefined ==
    lastOp.op = "clear" =>
        /\ PredefinedNames \subseteq DOMAIN variables
        /\ XName \notin preservedValues =>
              EvalSet(VariableNode(XName), variables) = {Throw(NotRecognized)}

\* line begins with the text prefix.
StartsWith(line, prefix) ==
    Len(line) >= Len(prefix) /\ SubSeq(line, 1, Len(prefix)) = prefix

\* C7: the tokenizer's function names are the parser's function names;
\* every documented call tokenizes as a Function token, and the parser
\* never reports an unknown function.
C7_FunctionNamesAgree ==
    /\ FunctionWords = DOMAIN OneArgumentNode \cup DOMAIN TwoArgumentNode
    /\ \A name \in DocumentedFunctions :
          (LineLexed /\ StartsWith(input, name \o <<"(">>))
              => tokens[1] = Token("FUNCTION", name)
    /\ lastOp.op = "line" => parsed.err # NotRecognized

\* C8: '!' is tokenized instead of rejected, and the line 5! yields 120.
C8_FactorialEndToEnd ==
    /\ (lastOp.op = "line" /\ \E k \in 1..Len(input) : input[k] = "!")
          => tokens # NotTokenized
    /\ (lastOp.op = "line" /\ input = <<"5", "!">>)
          => outcome = Ok(Int2Val(120))

Level(type) == IF type \in {"MULTIPLY", "DIVIDE"} THEN 2 ELSE 1

Arithmetic(type) == type \in {"PLUS", "MINUS", "MULTIPLY", "DIVIDE"}

NodeKind(type) ==
    CASE type = "PLUS" -> "Add"
      [] type = "MINUS" -> "Subtract"
      [] type = "MULTIPLY" -> "Multiply"
      [] type = "DIVIDE" -> "Divide"

\* C9: * and / bind tighter than + and -, both levels lean left, and a
\* parenthesised group is one operand: a o1 b o2 c is (a o1 b) o2 c unless
\* o2 binds tighter than o1; 2+3*4 is 14 and (2+3)*4 is 20.
C9_PrecedenceAndAssociativity ==
    /\ (LineLexed /\ Len(tokens) = 6 /\ IsAtom(tokens[1]) /\ IsAtom(tokens[3])
          /\ IsAtom(tokens[5]) /\ Arithmetic(tokens[2].type) /\ Arithmetic(tokens[4].type))
         => /\ parsed.ok
            /\ parsed.i = 5
            /\ parsed.node =
                 IF Level(tokens[4].type) > Level(tokens[2].type)
                 THEN BinaryNode(NodeKind(tokens[2].type), AtomNode(tokens[1]),
                          BinaryNode(NodeKind(tokens[4].type),
                                     AtomNode(tokens[3]), AtomNode(tokens[5])))
                 ELSE BinaryNode(NodeKind(tokens[4].type),
                          BinaryNode(NodeKind(tokens[2].type),
                                     AtomNode(tokens[1]), AtomNode(tokens[3])),
                          AtomNode(tokens[5]))
    /\ (LineLexed /\ Len(tokens) = 8
          /\ tokens[1].type = "LEFTPAREN" /\ IsAtom(tokens[2]) /\ Arithmetic(tokens[3].type)
          /\ IsAtom(tokens[4]) /\ tokens[5].type = "RIGHTPAREN"
          /\ Arithmetic(tokens[6].type) /\ IsAtom(tokens[7]))
         => /\ parsed.ok
            /\ parsed.node =
                 BinaryNode(NodeKind(tokens[6].type),
                     BinaryNode(NodeKind(tokens[3].type),
                                AtomNode(tokens[2]), AtomNode(tokens[4])),
                     AtomNode(tokens[7]))
    /\ (LineLexed /\ Len(tokens) = 8
          /\ IsAtom(tokens[1]) /\ Arithmetic(tokens[2].type)
          /\ tokens[3].type = "LEFTPAREN" /\ IsAtom(tokens[4]) /\ Arithmetic(tokens[5].type)
          /\ IsAtom(tokens[6]) /\ tokens[7].type = "RIGHTPAREN")
         => /\ parsed.ok
            /\ parsed.node =
                 BinaryNode(NodeKind(tokens[2].type), AtomNode(tokens[1]),
                     BinaryNode(NodeKind(tokens[5].type),
                                AtomNode(tokens[4]), AtomNode(tokens[6])))
    /\ (lastOp.op = "line" /\ input = <<"2", "+", "3", "*", "4">>)
         => outcome = Ok(Int2Val(14))
    /\ (lastOp.op = "line" /\ input = <<"(", "2", "+", "3", ")", "*", "4">>)
         => outcome = Ok(Int2Val(20))

\* The line (2+3)*4 was evaluated.
C9_Witness ==
    /\ lastOp.op = "line"
    /\ input = <<"(", "2", "+", "3", ")", "*", "4">>
    /\ parsed.ok
    /\ outcome.st = "ok"

\* A numeric literal: digits with at most one '.', and at least one digit.
ValidLiteral(text) ==
    /\ Cardinality({k \in 1..Len(text) : text[k] = "."}) <= 1
    /\ \E k \in 1..Len(text) : text[k] \in Digits

\* C10: a line that is one Number token whose text is no valid literal
\* makes parse fail; it never becomes a Number node.
C10_InvalidLiteralRejected ==
    (LineLexed /\ tokens[1].type = "NUMBER" /\ ~ValidLiteral(tokens[1].value))
        => ~parsed.ok

\* The token vector is exactly keyword, Variable, End.
CommandShape(toks, keyword) ==
    /\ Len(toks) = 3
    /\ toks[1].type = keyword
    /\ toks[2].type = "VARIABLE"
    /\ toks[3] = EndToken

Occurs(toks, keyword) == \E k \in 1..Len(toks) : toks[k].type = keyword

\* What C11 asks of a call op that looks for keyword.
Recognizes(op, keyword) ==
    lastOp.op = op =>
        /\ CommandShape(tokens, keyword)
              => lastOp = Op(op, tokens[2].value, TRUE) /\ parsed.av = tokens[2].value
        /\ (Occurs(tokens, keyword) /\ ~CommandShape(tokens, keyword)) => ~lastOp.ok
        /\ ~Occurs(tokens, keyword) => lastOp = Op(op, NoTarget, TRUE)
        /\ (lastOp.ok /\ lastOp.name # NoTarget) => CommandShape(tokens, keyword)

\* C11: parsePreserve returns the target name exactly on the tokens
\* Preserve, Variable(name), End; it throws when a Preserve token occurs in
\* any other vector, and reports "no command" when none occurs.
\* parseRemove does the same for the Remove token.
C11_CommandRecognition ==
    /\ Recognizes("parsePreserve", "PRESERVE")
    /\ Recognizes("parseRemove", "REMOVE")

\* parseRemove threw on a vector that holds a Remove token and more than
\* one variable.
C11_Witness ==
    /\ lastOp.op = "parseRemove"
    /\ ~lastOp.ok
    /\ Len(tokens) = 4
    /\ tokens[1].type = "REMOVE"
    /\ tokens[2].type = "VARIABLE"

\* C12: addPreservedValue(name) throws when name has no value and then
\* changes neither the preserved set nor the mappings; when name has a
\* value it adds name to the preserved set and changes neither mapping.
C12_MarkPreservedNeedsValue ==
    [][ lastOp'.op = "addPreservedValue" =>
          /\ variables' = variables
          /\ varNodes' = varNodes
          /\ IF lastOp'.name \in DOMAIN variables
             THEN lastOp'.ok /\ preservedValues' = preservedValues \cup {lastOp'.name}
             ELSE ~lastOp'.ok /\ preservedValues' = preservedValues ]_vars

\* addPreservedValue threw on x, which has no value, while y is preserved.
C12_Witness ==
    /\ lastOp = Op("addPreservedValue", XName, FALSE)
    /\ XName \notin DOMAIN variables
    /\ YName \in preservedValues

\* C13: when an Assign token occurs but the first two tokens are not
\* Variable, Assign, parse throws the assignment syntax error and captures
\* no target; when no Assign token occurs, parse captures no target.
C13_BadAssignmentShape ==
    [][ lastOp'.op = "parse" =>
          /\ (Occurs(tokens, "ASSIGN") /\ ~StartsWithAssignment(tokens))
                => /\ ~parsed'.ok
                   /\ parsed'.err = BadAssignment
                   /\ parsed'.av = parsed.av
          /\ ~Occurs(tokens, "ASSIGN") => parsed'.av = parsed.av
          /\ lastOp.op = "Parser" /\ ~StartsWithAssignment(tokens)
                => parsed'.av = NoTarget ]_vars

\* parse threw on x + 1 = 2 and no target is captured.
C13_Witness ==
    /\ lastOp = Op("parse", NoTarget, FALSE)
    /\ parsed.err = BadAssignment
    /\ Len(tokens) = 6
    /\ tokens[1].type = "VARIABLE"
    /\ tokens[2].type = "PLUS"
    /\ tokens[4].type = "ASSIGN"

\* C17: when parse succeeds the cursor is on the End token: tokens left
\* over after a complete expression make parse fail.
C17_NoLeftoverTokens ==
    (lastOp.op = "parse" /\ parsed.ok) => parsed.i = Len(tokens) - 1

\* C18: after a successful parse of tokens that start with Variable(n),
\* Assign, the captured target is n, whatever follows.
C18_TargetIsFirstVariable ==
    (lastOp.op = "parse" /\ parsed.ok /\ StartsWithAssignment(tokens))
        => parsed.av = tokens[1].value

Types(toks) == [k \in 1..Len(toks) |-> toks[k].type]

\* C19: on Minus, Number, Factorial parse builds Negate(Factorial(n)), -120
\* for n = 5; on Number, Factorial, Factorial it builds
\* Factorial(Factorial(n)).
C19_FactorialBinding ==
    /\ (lastOp.op \in {"parse", "evaluate"}
          /\ Types(tokens) = <<"MINUS", "NUMBER", "FACTORIAL", "END">>)
         => /\ parsed.ok
            /\ parsed.node = UnaryNode("Negate", UnaryNode("Factorial", AtomNode(tokens[2])))
    /\ (lastOp.op \in {"parse", "evaluate"}
          /\ Types(tokens) = <<"NUMBER", "FACTORIAL", "FACTORIAL", "END">>)
         => /\ parsed.ok
            /\ parsed.node = UnaryNode("Factorial", UnaryNode("Factorial", AtomNode(tokens[1])))
    /\ (lastOp.op = "evaluate"
          /\ Types(tokens) = <<"MINUS", "NUMBER", "FACTORIAL", "END">>
          /\ tokens[2].value = <<"5">>)
         => outcome = Ok(Int2Val(-120))

\* The tree parsed from Minus, Number(5), Factorial was evaluated.
C19_Witness ==
    /\ lastOp.op = "evaluate"
    /\ Types(tokens) = <<"MINUS", "NUMBER", "FACTORIAL", "END">>
    /\ tokens[2].value = <<"5">>
    /\ outcome.st = "ok"

\* o is the rational a / b.
IsQuotient(o, a, b) ==
    /\ o.st = "ok"
    /\ IsRat(o.v)
    /\ Num(o.v) * Den(a.v) * Num(b.v) = Num(a.v) * Den(b.v) * Den(o.v)

IsRational(o) == o.st = "ok" /\ IsRat(o.v)

\* What C14 asks of the outcome o of Divide(a, b), as the outcomes of a and
\* bs those of b.
DivideOutcome(as, bs, o) ==
    /\ (\A b \in bs : IsRational(b) /\ Num(b.v) = 0) => o = Throw(DivisionByZero)
    /\ ((\A b \in bs : IsRational(b) /\ Num(b.v) # 0) /\ (\A a \in as : IsRational(a)))
          => \E a \in as, b \in bs : IsQuotient(o, a, b)

\* C14: a line that is Divide(a, b) throws "division by zero" whenever b
\* evaluates to 0 and otherwise yields a / b; the failure leaves the
\* environment as it was.
C14_DivideByZero ==
    [][ (lastOp'.op = "line" /\ parsed'.ok /\ parsed'.node[1] = "Divide") =>
          /\ DivideOutcome(EvalSet(parsed'.node[2], variables),
                           EvalSet(parsed'.node[3], variables), outcome')
          /\ outcome'.e = DivisionByZero => CalculatorFrame' = CalculatorFrame ]_vars

\* The line y=1/0 failed while x has a value.
C14_Witness ==
    /\ lastOp = Op("line", YName, FALSE)
    /\ parsed.ok
    /\ parsed.node[1] = "Divide"
    /\ outcome = Throw(DivisionByZero)
    /\ XName \in DOMAIN variables

\* The loop of main can take line, which parses to p: the conditions
\* under which ProcessLine(line) has a next state.
LineEnabled(line, p) ==
    /\ running
    /\ cin = "good" \/ line = input
    /\ line # <<>>
    /\ line \notin CommandLines
    /\ InModel(p, EvaluateParsed(p, variables))

\* C15: an exception of tokenize, parse or evaluate is caught in the loop
\* of main: the session goes on with the environment it had, the loop
\* takes the next line, and that line is tokenized, parsed and evaluated
\* against that environment.
C15_FailureIsCaught ==
    [][ /\ (lastOp'.op = "line" /\ ~lastOp'.ok)
            => running' /\ CalculatorFrame' = CalculatorFrame
        /\ (lastOp.op = "line" /\ ~lastOp.ok)
            => /\ running
               /\ cin = "good" =>
                     LineEnabled(<<"x", "=", "2">>, ParseLexed(tokenize(<<"x", "=", "2">>)))
               /\ lastOp'.op = "line"
                    => /\ parsed' = ParseLexed(tokenize(input'))
                       /\ outcome' \in EvaluateParsed(parsed', variables) ]_vars

\* tokenize threw on the line last read, in a session that assigned x
\* before, and the loop still runs.
C15_Witness ==
    /\ lastOp.op = "line"
    /\ ~lastOp.ok
    /\ tokens = NotTokenized
    /\ running
    /\ XName \in DOMAIN variables

\* tokenize returned on the line last read: parse was called.
Tokenized == lastOp.op = "line" /\ parsed.err # NotParsed.err

\* End closes the token vector and stands nowhere else in it.
EndOnlyLast(toks) ==
    /\ Len(toks) >= 1
    /\ toks[Len(toks)].type = "END"
    /\ \A k \in 1..(Len(toks) - 1) : toks[k].type # "END"

\* Whitespace, digits, '.', letters and the punctuation tokenize knows.
RecognisedCharacters ==
    Spaces \cup Digits \cup {"."} \cup Letters
    \cup {"+", "-", "*", "/", "^", "(", ")", "=", ",", "|"}

\* C16 as stated: when tokenize succeeds the tokens are non-empty, End is
\* last and only last; any character outside the recognised ones makes
\* tokenize fail with no tokens.
C16_AnyOtherCharacterFails ==
    /\ Tokenized => EndOnlyLast(tokens)
    /\ (lastOp.op = "line" /\ \E k \in 1..Len(input) : input[k] \notin RecognisedCharacters)
          => ~Tokenized /\ tokens = NotTokenized /\ ~lastOp.ok

\* Position k of line continues an identifier: a letter stands before it
\* with only letters, digits and '_' in between.
InIdentifier(line, k) ==
    \E j \in 1..(k - 1) :
        /\ line[j] \in Letters
        /\ \A m \in j..(k - 1) : line[m] \in Letters \cup Digits \cup {"_"}

\* The characters tokenize rejects: unrecognised ones, except a '_' that
\* continues an identifier.
Rejected(line, k) ==
    /\ line[k] \notin RecognisedCharacters
    /\ ~(line[k] = "_" /\ InIdentifier(line, k))

\* C16, amended: when tokenize succeeds the tokens are non-empty, End is
\* last and only last; tokenize fails with no tokens exactly when the line
\* holds a character that is neither recognised nor a '_' continuing an
\* identifier.
C16_EndLastAndRejection ==
    /\ Tokenized => EndOnlyLast(tokens)
    /\ lastOp.op = "line" =>
          ((\E k \in 1..Len(input) : Rejected(input, k))
              <=> (~Tokenized /\ tokens = NotTokenized /\ ~lastOp.ok))

\* The line x_1 was tokenized to one Variable token and End.
C16_Witness ==
    /\ Tokenized
    /\ input = <<"x", "_", "1">>
    /\ tokens = <<Token("VARIABLE", <<"x", "_", "1">>), EndToken>>

\* ln(v) / ln(b), v and b rationals.
LnQuotient(v, b) == Real(<<"/", Real(<<"Ln", v>>), Real(<<"Ln", b>>)>>)

\* What C20 asks of the outcome o of LogBase(v, b), vs the outcomes of v
\* and bs those of b.
LogOutcome(vs, bs, o) ==
    \A v \in vs, b \in bs :
        (IsRational(v) /\ IsRational(b)) =>
            IF Num(b.v) <= 0 \/ (Num(b.v) = 1 /\ Den(b.v) = 1) \/ Num(v.v) <= 0
            THEN o.st = "error" /\ o.e \in {LogBaseOne, LogNonPositive}
            ELSE o = Ok(LnQuotient(v.v, b.v))

\* The line is a call of log that parse accepted.
LogCall ==
    /\ LineLexed
    /\ tokens[1] = Token("FUNCTION", <<"l", "o", "g">>)
    /\ parsed.ok
    /\ parsed.i = Len(tokens) - 1

\* C20: in log(v, b) the first argument is the value and the second the
\* base; the call fails with a domain error exactly when b <= 0, b = 1 or
\* v <= 0, and is ln(v) / ln(b) otherwise.
C20_LogBase ==
    /\ (LogCall /\ Len(tokens) = 7 /\ IsAtom(tokens[3]) /\ IsAtom(tokens[5]))
          => parsed.node = BinaryNode("Log", AtomNode(tokens[3]), AtomNode(tokens[5]))
    /\ LogCall
          => /\ parsed.node[1] = "Log"
             /\ LogOutcome(EvalSet(parsed.node[2], variables),
                           EvalSet(parsed.node[3], variables), outcome)
    /\ (LogCall /\ input = <<"l", "o", "g", "(", "8", ",", "2", ")">>)
          => outcome = Ok(LnQuotient(Int2Val(8), Int2Val(2)))

\* log(2,1) was evaluated and failed on its base.
C20_Witness ==
    /\ LogCall
    /\ input = <<"l", "o", "g", "(", "2", ",", "1", ")">>
    /\ outcome = Throw(LogBaseOne)

\* 1 * 2 * ... * n
RECURSIVE ProductTo(_)
ProductTo(n) == IF n <= 0 THEN 1 ELSE n * ProductTo(n - 1)

\* What C21 asks of the outcome o of Factorial(c), cs the outcomes of c.
FactorialOutcome(cs, o) ==
    \A c \in cs :
        IsRational(c) =>
            /\ (o.st = "error") <=> (Num(c.v) < 0)
            /\ Num(c.v) < 0 => o = Throw(NegativeFactorial)
            /\ Num(c.v) >= 0 => o = Ok(Int2Val(ProductTo(Num(c.v) \div Den(c.v))))
            /\ (Num(c.v) >= 0 /\ Num(c.v) < 2 * Den(c.v)) => o = Ok(Int2Val(1))

\* C21: Factorial(c) throws exactly when c < 0; for c >= 0 it is the
\* product of 1 .. floor(c): 1 when 0 <= c < 2, n! when c is the integer n.
C21_Factorial ==
    (lastOp.op = "evaluate" /\ parsed.node[1] = "Factorial")
        => FactorialOutcome(EvalSet(parsed.node[2], variables), outcome)

\* Factorial(3.9) was evaluated to 6.
C21_Witness ==
    /\ lastOp.op = "evaluate"
    /\ parsed.node = UnaryNode("Factorial", NumberNode(Rat(39, 10)))
    /\ outcome = Ok(Int2Val(6))

\* The environment as it is, and with x set to each value a client may give.
Environments == {variables} \cup { (XName :> v) @@ variables : v \in ApiValues }

\* C22: the clone of a tree evaluates to the outcome of the tree in every
\* environment, so a change of the environment shows in both alike.
C22_CloneEvaluatesAlike ==
    [][ lastOp'.op = "clone" =>
          \A env \in Environments :
              EvalSet(parsed'.node, env) = EvalSet(parsed.node, env) ]_vars

\* The tree Factorial(0 - 4) was cloned, and the clone throws as the tree does.
C22_Witness ==
    /\ lastOp.op = "clone"
    /\ parsed.node = UnaryNode("Factorial",
                        BinaryNode("Subtract", NumberNode(Int2Val(0)), NumberNode(Int2Val(4))))
    /\ EvalSet(parsed.node, variables) = {Throw(NegativeFactorial)}

\* C23: getVariable(name) returns a Variable node of its own when the name
\* has a reference node and throws otherwise, the mapping keeping its node;
\* the returned node, alone or under a product with 3, evaluates to the
\* value the name has when it is evaluated.
C23_GetVariable ==
    [][ /\ lastOp'.op = "getVariable" =>
              /\ IF lastOp'.name \in DOMAIN varNodes
                 THEN parsed' = Held(VariableNode(lastOp'.name)) /\ lastOp'.ok
                 ELSE ~parsed'.ok /\ parsed'.err = VariableNotFound /\ ~lastOp'.ok
              /\ CalculatorFrame' = CalculatorFrame
        /\ (lastOp'.op = "evaluate" /\ parsed.node[1] = "Variable"
              /\ parsed.node[2] \in DOMAIN variables)
              => outcome' = Ok(variables[parsed.node[2]])
        /\ (lastOp'.op = "evaluate" /\ parsed.node[1] = "Multiply"
              /\ parsed.node[2][2] \in DOMAIN variables)
              => outcome' = TimesVal(variables[parsed.node[2][2]], Int2Val(3)) ]_vars

\* x * 3 was evaluated to 6 after x, assigned once, was given the value 2.
C23_Witness ==
    /\ lastOp.op = "evaluate"
    /\ parsed.node = BinaryNode("Multiply", VariableNode(XName), NumberNode(Int2Val(3)))
    /\ XName \in DOMAIN varNodes
    /\ outcome = Ok(Int2Val(6))

\* C24: setVariable(name, v) always succeeds; Variable(name) then evaluates
\* to v; no other value, no reference node and no preserved name changes,
\* so a name that had no value still has no reference node.
C24_SetVariable ==
    [][ lastOp'.op = "setVariable" =>
          /\ lastOp'.ok
          /\ \E v \in ApiValues :
                EvalSet(VariableNode(lastOp'.name), variables') = {Ok(v)}
          /\ DOMAIN variables' = DOMAIN variables \cup {lastOp'.name}
          /\ \A k \in DOMAIN variables \ {lastOp'.name} : variables'[k] = variables[k]
          /\ varNodes' = varNodes
          /\ preservedValues' = preservedValues
          /\ lastOp'.name \notin DOMAIN variables =>
                lastOp'.name \notin DOMAIN varNodes' ]_vars

\* x has a value given by setVariable and no reference node: getVariable
\* has just thrown for it.
C24_Witness ==
    /\ lastOp = Op("getVariable", XName, FALSE)
    /\ XName \in DOMAIN variables
    /\ XName \notin DOMAIN varNodes
    /\ parsed.err = VariableNotFound

\* C25: every preserved name has a value.
C25_PreservedHaveValues == preservedValues \subseteq DOMAIN variables

\* A user variable is preserved and came through a clear.
C25_Witness ==
    /\ lastOp.op = "clear"
    /\ YName \in preservedValues
    /\ PiName \notin preservedValues

\* C26: evaluate changes neither mapping nor the preserved set, and right
\* after an evaluation the same tree evaluates to the same outcome.
C26_EvaluateReadOnly ==
    /\ [][ lastOp'.op = "evaluate" => CalculatorFrame' = CalculatorFrame ]_vars
    /\ [](lastOp.op = "evaluate" => EvalSet(parsed.node, variables) = {outcome})

\* pi * 3 was evaluated for a pi that has the value 1.
C26_Witness ==
    /\ lastOp.op = "evaluate"
    /\ parsed.node = BinaryNode("Multiply", VariableNode(PiName), NumberNode(Int2Val(3)))
    /\ outcome = Ok(Int2Val(3))

\* C27: a clear() right after a clear() changes nothing, and from any state
\* two clears leave what one clear leaves.
C27_ClearIdempotent ==
    /\ lastOp.op = "clear" =>
          /\ ClearVariables(variables, preservedValues) = variables
          /\ ClearVarNodes(variables, preservedValues) = varNodes
    /\ ClearVariables(ClearVariables(variables, preservedValues), preservedValues)
          = ClearVariables(variables, preservedValues)
    /\ ClearVarNodes(ClearVariables(variables, preservedValues), preservedValues)
          = ClearVarNodes(variables, preservedValues)

\* A clear has removed x and kept the preserved y with its value.
C27_Witness ==
    /\ lastOp.op = "clear"
    /\ XName \notin DOMAIN variables
    /\ YName \in DOMAIN variables
    /\ variables[YName] = Int2Val(1)
    /\ PredefinedNames \ {PiName} \subseteq DOMAIN variables

\* C29: once std::cin has reached end-of-file the loop of main stops.
C29_StopsAtEndOfFile == (cin # "good") ~> ~running

\* The step leaves the function on top in its loop: it calls the operand's
\* function from the loop, or goes round the loop of parseUnary.
Iterates ==
    /\ parser.frames # <<>>
    /\ Top.at = "loop"
    /\ Len(parser'.frames) >= Len(parser.frames)

\* Every function that is entered while it is already on the stack is
\* entered with a cursor beyond the one its earlier call was entered with.
RecursionConsumes ==
    \A j, k \in 1..Len(parser.frames) :
        (j < k /\ parser.frames[j].fn = parser.frames[k].fn)
            => parser.frames[j].entered < parser.frames[k].entered

\* C28: parse() on a token vector that ends with its End token returns or
\* throws; every call of a function already running and every iteration of
\* a loop has consumed at least one token.
C28_ParseTerminates ==
    /\ [][Iterates => parser'.currIndex > parser.currIndex]_vars
    /\ []RecursionConsumes
    /\ (parser.frames # <<>>) ~> (parser.frames = <<>>)

\* parse() has returned from (((2))), where parsePrimary ran inside three
\* calls of itself.
C28_Witness ==
    /\ lastOp.op = "descent"
    /\ parser.frames = <<>>
    /\ parser.thrown = "none"
    /\ Types(tokens) = <<"LEFTPAREN", "LEFTPAREN", "LEFTPAREN", "NUMBER",
                         "RIGHTPAREN", "RIGHTPAREN", "RIGHTPAREN", "END">>
    /\ parser.currIndex = 7

\* C30: inside parse() the cursor never decreases, and it is the index of a
\* token, at most the index of the End token.
C30_CursorInRange ==
    /\ [][parser.frames # <<>> => parser'.currIndex >= parser.currIndex]_vars
    /\ [](lastOp.op \in {"Parser", "descent"} =>
            /\ parser.currIndex \in 0..(Len(tokens) - 1)
            /\ \A k \in 1..Len(tokens) :
                  tokens[k].type = "END" => parser.currIndex <= k - 1)

\* parseAssignment has skipped the two tokens of x = and parse() has
\* returned with the cursor on the End token.
C30_Witness ==
    /\ lastOp = Op("descent", XName, TRUE)
    /\ parser.frames = <<>>
    /\ parser.currIndex = 3
    /\ Len(tokens) = 4
    /\ tokens[4].type = "END"

====
